---- MODULE Spec2Model ----
(***************************************************************************)
(* Batch call dispatcher of the voice-AI dashboard.                        *)
(*                                                                         *)
(* The repository holds two dispatchers that are never deployed together:  *)
(*   variant "server": server.js, globals currentBatch / batchQueue,       *)
(*       POST /api/batch/upload, POST /api/batch/:batchId/start and        *)
(*       processBatch;                                                     *)
(*   variant "routes": the batch router (unnamed/part_005), appState       *)
(*       currentBatch / batchQueue, POST / (create), POST /:batchId/cancel *)
(*       and processBatchQueue.                                            *)
(* Init chooses the deployed variant; every await of the code is a step    *)
(* boundary, the code between two awaits is one atomic step.               *)
(***************************************************************************)
EXTENDS Integers, Sequences, FiniteSets, TLC

\* ---- bounds ----
MaxBatches == 2     \* batches ever created
MaxCalls == 2       \* contacts per batch
MaxFaults == 2      \* store operations that fail
MaxStarts == 2      \* start requests ever issued
MaxInflight == 1    \* start / cancel requests between their two steps
MaxDigits == 16     \* digits after the first digit of a phone number tried
MaxLines == 2       \* lines of a CSV text tried
MaxEnded == 1       \* call_ended webhooks ever received
MaxHooks == 1       \* post-call and call_started webhooks ever received
MaxScrapes == 5     \* scrape requests ever queued
MaxPrompts == 4     \* prompt updates ever received

\* scrapingConfig.maxConcurrentScrapes
maxConcurrentScrapes == 3

\* the largest contact list the router accepts
MaxBatchSize == 1000

NoBatch == 0
BatchIds == 1..MaxBatches
StoreError == "store error"
RemoteError == "insufficient credits"
NoError == "none"
NoId == <<"none", 0, 0, 0>>

VARIABLES
    variant,        \* which dispatcher is deployed
    batches,        \* table batches: id -> row
    batch_calls,    \* table batch_calls: batch id -> rows in insertion order
    calls,          \* table calls: set of rows
    currentBatch,   \* the current-batch slot
    batchQueue,     \* the FIFO queue of batch ids
    timers,         \* pending setTimeout(processBatchQueue) callbacks
    loops,          \* running processBatch / processBatchQueue invocations
    startReqs,      \* start requests between their SELECT and their decision
    cancelReqs,     \* cancel requests between their UPDATE and their splice
    faults,         \* store operations that have failed so far
    starts,         \* start requests issued so far
    invocations,    \* history: <<batch, row, outcome>> of every remote call-setup, in order
    resp,           \* the HTTP response sent by the step just taken, if any
    handed,         \* history: batch ids handed to the dispatcher, in order
    started,        \* history: batch ids whose loop was started, in order
    finished,       \* history: <<batch id, how>> for every loop that ended, in order
    phoneCheck,     \* the last phone normalization: path, input and result
    csvCheck,       \* a CSV text, the parser applied to it and the contacts it gave
    events,         \* history: the events the dispatcher broadcast, in order
    endedReqs,      \* call_ended webhooks between their two UPDATEs
    ended,          \* call_ended webhooks received so far
    answered,       \* history: batches whose cancel request was answered with success
    hooks,          \* the post-call and call_started webhooks received: conversation, position
    scrapingQueue,  \* the scrape requests waiting, in order
    activeScrapes,  \* the counter of scrapes under way
    scrapes,        \* scrape request -> none, queued, running, resolved, rejected
    scrapeStarts,   \* history: the scrape requests handed to scrapeWebsite, in order
    agent_prompts,  \* table agent_prompts: rows in insertion order
    promptReqs,     \* prompt updates between their UPDATE and their INSERT
    prompted        \* prompt updates received so far

vars == <<variant, batches, batch_calls, calls, currentBatch, batchQueue,
          timers, loops, startReqs, cancelReqs, faults, starts, invocations,
          resp, handed, started, finished, phoneCheck, csvCheck, events,
          endedReqs, ended, answered, hooks, scrapingQueue, activeScrapes, scrapes,
          scrapeStarts, agent_prompts, promptReqs, prompted>>

\* ---- helpers ----
Terminal == {"completed", "failed", "cancelled", "partial"}

NoRow == [status |-> "none", total_calls |-> 0, completed_calls |-> 0,
          successful_calls |-> 0, failed_calls |-> 0]

\* a row of batches as its INSERT leaves it (column defaults of the schema)
NewBatchRow(n) == [status |-> "pending", total_calls |-> n, completed_calls |-> 0,
                   successful_calls |-> 0, failed_calls |-> 0]

\* a row of batch_calls as its INSERT leaves it
NewBatchCallRow == [status |-> "pending", call_id |-> NoId, error_message |-> NoError]

Exists(b) == batches[b].status # "none"

FreshIds == {b \in BatchIds : ~Exists(b)}

\* all orderings of a finite set, as sequences
Orders(S) == {s \in [1..Cardinality(S) -> S] : \A i, j \in 1..Cardinality(S) : i # j => s[i] # s[j]}

Ascending(S) == CHOOSE s \in Orders(S) : \A i, j \in 1..Cardinality(S) : i < j => s[i] < s[j]

\* a SELECT without the status condition
AnyStatusIdx(b) == 1..Len(batch_calls[b])

\* WHERE batch_id = b AND status = 'pending'
PendingIdx(b) == {i \in 1..Len(batch_calls[b]) : batch_calls[b][i].status = "pending"}

\* SELECT ... WHERE batch_id = b AND status = 'pending' ORDER BY created_at.
\* server.js inserts every row in its own statement, so created_at is the
\* insertion order; the router inserts all rows in one transaction, where
\* NOW() is the transaction start time: the rows tie and any order may come.
SelectPending(b) ==
    IF variant = "server" THEN {Ascending(PendingIdx(b))} ELSE Orders(PendingIdx(b))

\* the lengths of the contact lists submitted while the dispatcher runs
ListSizes == 0..MaxCalls

\* the lengths of the contact lists tried on the submission endpoints alone:
\* the short lists, a list of exactly the limit, and one entry more
SubmitSizes == ListSizes \cup {MaxBatchSize, MaxBatchSize + 1}

CanFail == faults < MaxFaults

\* a fresh invocation of processBatch / processBatchQueue for batch b:
\* todo = the rows still to walk (head = the row in hand), n = calls.length,
\* succ / fail = the router's local counters, err = the caught error's
\* message, conv = the remote result in hand, gap = what lies between the
\* latest remote call-setup of this invocation and now ("first": there was
\* none yet, "none": no wait since, "waited": a wait since)
NewLoop(b, pc) == [batch |-> b, pc |-> pc, todo |-> <<>>, n |-> 0, succ |-> 0, fail |-> 0,
                   err |-> NoError, conv |-> 0, gap |-> "first"]

\* the loop has returned from the 2 second setTimeout
AfterWait(l) == [l EXCEPT !.gap = IF @ = "none" THEN "waited" ELSE @]

\* the loop has called initiateOutboundCall
AfterInvoke(l) == [l EXCEPT !.gap = "none"]

\* path = the code path that handled the number, input = the number given,
\* result = what the path did with it
NoCheck == [path |-> "none", input |-> <<>>, result |-> [ok |-> FALSE, value |-> <<>>]]

\* path = the parser applied, input = the CSV text, result = the phone
\* numbers of the contacts returned
NoCsv == [path |-> "none", input |-> <<>>, result |-> <<>>]

\* op = the endpoint, ok = success answered, was = the batch status the
\* handler saw, n = the length of the submitted contact list, id = the
\* identifier a webhook carried
NoResp == [op |-> "none", batch |-> NoBatch, ok |-> FALSE, was |-> "none", n |-> 0, id |-> NoId]

TypeOK ==
    /\ variant \in {"server", "routes"}
    /\ currentBatch \in BatchIds \cup {NoBatch}
    /\ batchQueue \in Seq(BatchIds)
    /\ timers \in Nat
    /\ faults \in 0..MaxFaults
    /\ starts \in 0..MaxStarts
    /\ \A b \in BatchIds : batches[b].total_calls \in 0..(MaxBatchSize + 1)

\* the state after construction, but for the CSV text in hand
InitDispatcher ==
    /\ variant \in {"server", "routes"}
    /\ batches = [b \in BatchIds |-> NoRow]
    /\ batch_calls = [b \in BatchIds |-> <<>>]
    /\ calls = {}
    /\ currentBatch = NoBatch
    /\ batchQueue = <<>>
    /\ timers = 0
    /\ loops = {}
    /\ startReqs = {}
    /\ cancelReqs = {}
    /\ faults = 0
    /\ starts = 0
    /\ invocations = <<>>
    /\ resp = NoResp
    /\ handed = <<>>
    /\ started = <<>>
    /\ finished = <<>>
    /\ phoneCheck = NoCheck
    /\ events = <<>>
    /\ endedReqs = {}
    /\ ended = 0
    /\ answered = {}
    /\ hooks = {}
    /\ scrapingQueue = <<>>
    /\ activeScrapes = 0
    /\ scrapes = [u \in 1..MaxScrapes |-> "none"]
    /\ scrapeStarts = <<>>
    /\ agent_prompts = <<>>
    /\ promptReqs = {}
    /\ prompted = 0

Init == InitDispatcher /\ csvCheck = NoCsv


dbVars == <<batches, batch_calls, calls>>
reqVars == <<startReqs, cancelReqs, starts>>
hookVars == <<endedReqs, ended>>
scrapeVars == <<scrapingQueue, activeScrapes, scrapes, scrapeStarts>>
promptVars == <<agent_prompts, promptReqs, prompted>>
otherVars == <<scrapeVars, promptVars>>
sideVars == <<hooks, otherVars>>

\* what no step of a dispatcher or of its endpoints writes
fixedVars == <<sideVars, hookVars, csvCheck, phoneCheck, variant>>

\* io.emit(type, payload): row = the BatchCall whose destination the payload
\* names (0: none), progress = the progress fields of the payload
Event(type, b, row, progress) == [type |-> type, batch |-> b, row |-> row, progress |-> progress]

Emit(e) == events' = Append(events, e)

\* a payload without progress fields
NoProgress == [status |-> "none"]

\* the step sends no HTTP response
Silent == resp' = NoResp

\* loop l takes one step and becomes l2
Step(l, l2) == loops' = (loops \ {l}) \cup {l2}

\* the store operation of a step throws
Fault == CanFail /\ faults' = faults + 1

\* ---------------------------------------------------------------------
\* variant "server": server.js
\* ---------------------------------------------------------------------

\* if (phoneNumbers.length === 0) return res.status(400): the only size test
\* of the upload endpoint
UploadRejects(n) == n = 0

\* POST /api/batch/upload: the batch row, then one row per phone number, each
\* in its own statement; a failing INSERT leaves what was inserted before it:
\* nothing when the INSERT of the batch row throws, else the batch row and
\* k batch_calls rows (k < n: the next INSERT threw).
Upload(b, n, k) ==
    /\ variant = "server"
    /\ b \in FreshIds /\ \A c \in FreshIds : b <= c
    /\ IF UploadRejects(n)
         THEN /\ resp' = [op |-> "upload", batch |-> NoBatch, ok |-> FALSE, was |-> "none", n |-> n, id |-> NoId]
              /\ UNCHANGED <<batches, batch_calls, faults>>
         ELSE \/ /\ Fault
                 /\ resp' = [op |-> "upload", batch |-> b, ok |-> FALSE, was |-> "none", n |-> n, id |-> NoId]
                 /\ UNCHANGED <<batches, batch_calls>>
              \/ /\ batches' = [batches EXCEPT ![b] = NewBatchRow(n)]
                 /\ batch_calls' = [batch_calls EXCEPT ![b] = [i \in 1..k |-> NewBatchCallRow]]
                 /\ IF k = n
                      THEN /\ resp' = [op |-> "upload", batch |-> b, ok |-> TRUE, was |-> "none", n |-> n, id |-> NoId]
                           /\ UNCHANGED faults
                      ELSE /\ Fault
                           /\ resp' = [op |-> "upload", batch |-> b, ok |-> FALSE, was |-> "none", n |-> n, id |-> NoId]
    /\ UNCHANGED <<answered, events, fixedVars, calls, currentBatch, batchQueue, timers, loops, startReqs,
                   cancelReqs, starts, invocations, handed, started, finished>>

\* a start endpoint that only turns away finished batches
StartAcceptsUnfinished(status) == status \notin {"completed", "failed"}

\* the check of the start endpoint on the row it read
StartAccepts(status) == status = "pending"

\* POST /api/batch/:batchId/start up to the end of its SELECT
StartRead(b) ==
    /\ variant = "server"
    /\ starts < MaxStarts /\ Cardinality(startReqs) < MaxInflight
    /\ starts' = starts + 1
    /\ \/ /\ Exists(b) /\ StartAccepts(batches[b].status)
          /\ startReqs' = startReqs \cup {b}
          /\ Silent
          /\ UNCHANGED faults
       \/ /\ ~(Exists(b) /\ StartAccepts(batches[b].status))
          /\ resp' = [op |-> "start", batch |-> b, ok |-> FALSE, was |-> batches[b].status, n |-> 0, id |-> NoId]
          /\ UNCHANGED <<startReqs, faults>>
       \/ /\ Fault
          /\ resp' = [op |-> "start", batch |-> b, ok |-> FALSE, was |-> batches[b].status, n |-> 0, id |-> NoId]
          /\ UNCHANGED startReqs
    /\ UNCHANGED <<answered, events, fixedVars, dbVars, currentBatch, batchQueue, timers, loops, cancelReqs,
                   invocations, handed, started, finished>>

\* a start that does not look at the slot
SlotFreeIgnored == TRUE

\* the test that lets a batch start at once
SlotFree == currentBatch = NoBatch

\* POST /api/batch/:batchId/start after its SELECT: start or enqueue
StartDecide(b) ==
    /\ b \in startReqs
    /\ startReqs' = startReqs \ {b}
    /\ handed' = Append(handed, b)
    /\ resp' = [op |-> "start", batch |-> b, ok |-> TRUE, was |-> "pending", n |-> 0, id |-> NoId]
    /\ IF SlotFree
         THEN /\ currentBatch' = b
              /\ loops' = loops \cup {NewLoop(b, "markProcessing")}
              /\ started' = Append(started, b)
              /\ UNCHANGED batchQueue
         ELSE /\ batchQueue' = Append(batchQueue, b)
              /\ UNCHANGED <<currentBatch, loops, started>>
    /\ UNCHANGED <<answered, events, fixedVars, dbVars, timers, cancelReqs, faults, starts, invocations, finished>>

\* the identifier shift() takes and the queue it leaves
QueueFront(q) == Head(q)
QueueRest(q) == Tail(q)

\* the end of processBatch: clear the slot, start the next queued batch
TailServer(l, how) ==
    /\ finished' = Append(finished, <<l.batch, how>>)
    /\ IF batchQueue # <<>>
         THEN /\ currentBatch' = QueueFront(batchQueue)
              /\ batchQueue' = QueueRest(batchQueue)
              /\ loops' = (loops \ {l}) \cup {NewLoop(QueueFront(batchQueue), "markProcessing")}
              /\ started' = Append(started, QueueFront(batchQueue))
         ELSE /\ currentBatch' = NoBatch
              /\ loops' = loops \ {l}
              /\ UNCHANGED <<batchQueue, started>>

\* where the for loop of processBatch goes once the calls in rest remain
NextCall(l, rest) ==
    [l EXCEPT !.todo = rest, !.err = NoError, !.conv = 0,
              !.pc = IF rest = <<>> THEN "markCompleted" ELSE "callProcessing"]

\* how often the remote call-setup was invoked for row i of batch b
Attempts(b, i) ==
    Cardinality({j \in DOMAIN invocations : invocations[j][1] = b /\ invocations[j][2] = i})

\* no per-call try block: the throw reaches the outer catch
CallFailureAborts(l, msg) == [l EXCEPT !.pc = "catch", !.err = msg]

\* a step in the per-call try block throws: control enters the per-call catch
ToCallCatch(l, msg) == [l EXCEPT !.pc = "callCatch", !.err = msg]

\* a step outside the per-call try block throws: control enters the outer catch
ToCatch(l, msg) == [l EXCEPT !.pc = "catch", !.err = msg]

\* UPDATE batches SET status = 'processing'
MarkProcessing(l) ==
    /\ l.pc = "markProcessing"
    /\ \/ /\ batches' = [batches EXCEPT ![l.batch].status = "processing"]
          /\ Step(l, [l EXCEPT !.pc = "selectCalls"])
          /\ UNCHANGED faults
       \/ /\ Fault
          /\ Step(l, ToCatch(l, StoreError))
          /\ UNCHANGED batches
    /\ Silent
    /\ UNCHANGED <<answered, events, fixedVars, batch_calls, calls, currentBatch, batchQueue, timers, reqVars,
                   invocations, handed, started, finished>>

\* SELECT the pending batch_calls of the batch
SelectCalls(l) ==
    /\ l.pc = "selectCalls"
    /\ \/ /\ \E rows \in SelectPending(l.batch) : Step(l, NextCall(l, rows))
          /\ UNCHANGED faults
       \/ /\ Fault
          /\ Step(l, ToCatch(l, StoreError))
    /\ Silent
    /\ UNCHANGED <<answered, events, fixedVars, dbVars, currentBatch, batchQueue, timers, reqVars,
                   invocations, handed, started, finished>>

\* UPDATE batch_calls SET status = 'processing'
CallProcessing(l) ==
    /\ l.pc = "callProcessing"
    /\ \/ /\ batch_calls' = [batch_calls EXCEPT ![l.batch][Head(l.todo)].status = "processing"]
          /\ Step(l, [l EXCEPT !.pc = "progress"])
          /\ UNCHANGED faults
       \/ /\ Fault
          /\ Step(l, ToCallCatch(l, StoreError))
          /\ UNCHANGED batch_calls
    /\ Silent
    /\ UNCHANGED <<answered, events, fixedVars, batches, calls, currentBatch, batchQueue, timers, reqVars,
                   invocations, handed, started, finished>>

\* io.emit('batchProgress', {..., progress: await getBatchProgress(batchId)})
Progress(l) ==
    /\ l.pc = "progress"
    /\ \/ /\ Step(l, [l EXCEPT !.pc = "initiate"])
          /\ Emit(Event("batchProgress", l.batch, Head(l.todo), batches[l.batch]))
          /\ UNCHANGED faults
       \/ /\ Fault
          /\ Step(l, ToCallCatch(l, StoreError))
          /\ UNCHANGED events
    /\ Silent
    /\ UNCHANGED <<answered, fixedVars, dbVars, currentBatch, batchQueue, timers, reqVars,
                   invocations, handed, started, finished>>

\* await initiateOutboundCall(batchCall.phone_number): returns or throws
Initiate(l) ==
    /\ l.pc = "initiate"
    /\ \/ /\ Step(l, [AfterInvoke(l) EXCEPT !.pc = "insertCall",
                                            !.conv = Attempts(l.batch, Head(l.todo)) + 1])
          /\ invocations' = Append(invocations, <<l.batch, Head(l.todo), "ok">>)
       \/ /\ Step(l, ToCallCatch(AfterInvoke(l), RemoteError))
          /\ invocations' = Append(invocations, <<l.batch, Head(l.todo), "error">>)
    /\ Silent
    /\ UNCHANGED <<answered, events, fixedVars, dbVars, currentBatch, batchQueue, timers, reqVars, faults,
                   handed, started, finished>>

\* identifiers: callData.id is fresh per insert, the conversation id is fresh
\* per remote invocation (a = the attempt number of that row)
CallId(l) == <<"call", l.batch, Head(l.todo), l.conv>>
ConvId(l) == <<"conv", l.batch, Head(l.todo), l.conv>>

\* the Call row the dispatcher inserts after a successful remote invocation
CallRow(l) ==
    [id |-> CallId(l), conversation_id |-> ConvId(l), batch |-> l.batch,
     idx |-> Head(l.todo), status |-> "initiated", call_type |-> "outbound"]

\* INSERT INTO calls
InsertCall(l) ==
    /\ l.pc = "insertCall"
    /\ \/ /\ calls' = calls \cup {CallRow(l)}
          /\ Step(l, [l EXCEPT !.pc = "callCompleted"])
          /\ UNCHANGED faults
       \/ /\ Fault
          /\ Step(l, ToCallCatch(l, StoreError))
          /\ UNCHANGED calls
    /\ Silent
    /\ UNCHANGED <<answered, events, fixedVars, batches, batch_calls, currentBatch, batchQueue, timers, reqVars,
                   invocations, handed, started, finished>>

\* UPDATE batch_calls SET status = 'completed', call_id = callData.id
CallCompleted(l) ==
    /\ l.pc = "callCompleted"
    /\ \/ /\ batch_calls' = [batch_calls EXCEPT ![l.batch][Head(l.todo)] =
                                [@ EXCEPT !.status = "completed", !.call_id = CallId(l)]]
          /\ Step(l, [l EXCEPT !.pc = "incSuccess"])
          /\ UNCHANGED faults
       \/ /\ Fault
          /\ Step(l, ToCallCatch(l, StoreError))
          /\ UNCHANGED batch_calls
    /\ Silent
    /\ UNCHANGED <<answered, events, fixedVars, batches, calls, currentBatch, batchQueue, timers, reqVars,
                   invocations, handed, started, finished>>

\* UPDATE batches SET completed_calls = completed_calls + 1, successful_calls = successful_calls + 1
CountSuccess(row) ==
    [row EXCEPT !.completed_calls = @ + 1, !.successful_calls = @ + 1]

\* the UPDATE of the counters, then io.emit('newCall', callData)
IncSuccess(l) ==
    /\ l.pc = "incSuccess"
    /\ \/ /\ batches' = [batches EXCEPT ![l.batch] = CountSuccess(@)]
          /\ Step(l, [l EXCEPT !.pc = "sleep"])
          /\ Emit(Event("newCall", l.batch, Head(l.todo), NoProgress))
          /\ UNCHANGED faults
       \/ /\ Fault
          /\ Step(l, ToCallCatch(l, StoreError))
          /\ UNCHANGED <<batches, events>>
    /\ Silent
    /\ UNCHANGED <<answered, fixedVars, batch_calls, calls, currentBatch, batchQueue, timers, reqVars,
                   invocations, handed, started, finished>>

\* await new Promise(resolve => setTimeout(resolve, 2000)), then the next call
Sleep(l) ==
    /\ l.pc = "sleep"
    /\ Step(l, NextCall(AfterWait(l), Tail(l.todo)))
    /\ Silent
    /\ UNCHANGED <<answered, events, fixedVars, dbVars, currentBatch, batchQueue, timers, reqVars, faults,
                   invocations, handed, started, finished>>

\* per-call catch: UPDATE batch_calls SET status = 'failed', error_message = error.message
CallCatch(l) ==
    /\ l.pc = "callCatch"
    /\ \/ /\ batch_calls' = [batch_calls EXCEPT ![l.batch][Head(l.todo)] =
                                [@ EXCEPT !.status = "failed", !.error_message = l.err]]
          /\ Step(l, [l EXCEPT !.pc = "incFailed"])
          /\ UNCHANGED faults
       \/ /\ Fault
          /\ Step(l, ToCatch(l, StoreError))
          /\ UNCHANGED batch_calls
    /\ Silent
    /\ UNCHANGED <<answered, events, fixedVars, batches, calls, currentBatch, batchQueue, timers, reqVars,
                   invocations, handed, started, finished>>

\* a failure that is counted in failed_calls only
CountFailureOnly(row) == [row EXCEPT !.failed_calls = @ + 1]

\* UPDATE batches SET completed_calls = completed_calls + 1, failed_calls = failed_calls + 1
CountFailure(row) ==
    [row EXCEPT !.completed_calls = @ + 1, !.failed_calls = @ + 1]

\* per-call catch, second statement; then `continue`
IncFailed(l) ==
    /\ l.pc = "incFailed"
    /\ \/ /\ batches' = [batches EXCEPT ![l.batch] = CountFailure(@)]
          /\ Step(l, NextCall(l, Tail(l.todo)))
          /\ UNCHANGED faults
       \/ /\ Fault
          /\ Step(l, ToCatch(l, StoreError))
          /\ UNCHANGED batches
    /\ Silent
    /\ UNCHANGED <<answered, events, fixedVars, batch_calls, calls, currentBatch, batchQueue, timers, reqVars,
                   invocations, handed, started, finished>>

\* the status processBatch writes after the loop
FinalStatusServer(row) == "completed"

\* UPDATE batches SET status = 'completed'
MarkCompleted(l) ==
    /\ l.pc = "markCompleted"
    /\ \/ /\ batches' = [batches EXCEPT ![l.batch].status = FinalStatusServer(@)]
          /\ Step(l, [l EXCEPT !.pc = "finalProgress"])
          /\ UNCHANGED faults
       \/ /\ Fault
          /\ Step(l, ToCatch(l, StoreError))
          /\ UNCHANGED batches
    /\ Silent
    /\ UNCHANGED <<answered, events, fixedVars, batch_calls, calls, currentBatch, batchQueue, timers, reqVars,
                   invocations, handed, started, finished>>

\* const finalProgress = await getBatchProgress(batchId); emit; then the tail
FinalProgress(l) ==
    /\ l.pc = "finalProgress"
    /\ \/ /\ TailServer(l, "completed")
          /\ Emit(Event("batchCompleted", l.batch, 0, batches[l.batch]))
          /\ UNCHANGED faults
       \/ /\ Fault
          /\ Step(l, ToCatch(l, StoreError))
          /\ UNCHANGED <<currentBatch, batchQueue, started, finished, events>>
    /\ Silent
    /\ UNCHANGED <<answered, fixedVars, dbVars, timers, reqVars, invocations, handed>>

\* outer catch: UPDATE batches SET status = 'failed', then the tail.  When the
\* UPDATE throws, the promise of processBatch rejects (nobody awaits it) and
\* the code after the catch never runs; the rejection is modelled as logged,
\* a runtime that exits on it stops the dispatcher for good as well.
Catch(l) ==
    /\ l.pc = "catch"
    /\ \/ /\ batches' = [batches EXCEPT ![l.batch].status = "failed"]
          /\ TailServer(l, "aborted")
          /\ UNCHANGED faults
       \/ /\ Fault
          /\ loops' = loops \ {l}
          /\ finished' = Append(finished, <<l.batch, "rejected">>)
          /\ UNCHANGED <<batches, currentBatch, batchQueue, started>>
    /\ Silent
    /\ UNCHANGED <<answered, events, fixedVars, batch_calls, calls, timers, reqVars, invocations, handed>>

NextServer ==
    \/ \E b \in BatchIds, n \in ListSizes, k \in ListSizes : k <= n /\ Upload(b, n, k)
    \/ \E b \in BatchIds : StartRead(b)
    \/ \E b \in BatchIds : StartDecide(b)
    \/ \E l \in loops : MarkProcessing(l)
    \/ \E l \in loops : SelectCalls(l)
    \/ \E l \in loops : CallProcessing(l)
    \/ \E l \in loops : Progress(l)
    \/ \E l \in loops : Initiate(l)
    \/ \E l \in loops : InsertCall(l)
    \/ \E l \in loops : CallCompleted(l)
    \/ \E l \in loops : IncSuccess(l)
    \/ \E l \in loops : Sleep(l)
    \/ \E l \in loops : CallCatch(l)
    \/ \E l \in loops : IncFailed(l)
    \/ \E l \in loops : MarkCompleted(l)
    \/ \E l \in loops : FinalProgress(l)
    \/ \E l \in loops : Catch(l)

\* ---------------------------------------------------------------------
\* variant "routes": the batch router (unnamed/part_005)
\* ---------------------------------------------------------------------

\* calls.length === 0 and calls.length > 1000 are answered with status 400
CreateRejects(n) == n = 0 \/ n > MaxBatchSize

\* POST / (create batch): BEGIN, the batch row, one row per contact, COMMIT,
\* then push and, if the slot is empty, arm a timer; a failing statement rolls
\* everything back.
Create(b, n) ==
    /\ variant = "routes"
    /\ b \in FreshIds /\ \A c \in FreshIds : b <= c
    /\ \/ /\ CreateRejects(n)
          /\ resp' = [op |-> "create", batch |-> NoBatch, ok |-> FALSE, was |-> "none", n |-> n, id |-> NoId]
          /\ UNCHANGED <<batches, batch_calls, batchQueue, handed, timers, faults>>
       \/ /\ ~CreateRejects(n)
          /\ batches' = [batches EXCEPT ![b] = NewBatchRow(n)]
          /\ batch_calls' = [batch_calls EXCEPT ![b] = [i \in 1..n |-> NewBatchCallRow]]
          /\ batchQueue' = Append(batchQueue, b)
          /\ handed' = Append(handed, b)
          /\ timers' = IF SlotFree THEN timers + 1 ELSE timers
          /\ resp' = [op |-> "create", batch |-> b, ok |-> TRUE, was |-> "none", n |-> n, id |-> NoId]
          /\ UNCHANGED faults
       \/ /\ ~CreateRejects(n)
          /\ Fault
          /\ resp' = [op |-> "create", batch |-> NoBatch, ok |-> FALSE, was |-> "none", n |-> n, id |-> NoId]
          /\ UNCHANGED <<batches, batch_calls, batchQueue, handed, timers>>
    /\ UNCHANGED <<answered, events, fixedVars, calls, currentBatch, loops, startReqs, cancelReqs, starts,
                   invocations, started, finished>>

\* UPDATE batches SET status = 'cancelled' WHERE id = b AND status = 'pending'
CancelRow(row) == IF row.status = "pending" THEN [row EXCEPT !.status = "cancelled"] ELSE row

\* POST /:batchId/cancel up to the end of its UPDATE
CancelUpdate(b) ==
    /\ variant = "routes"
    /\ Cardinality(cancelReqs) < MaxInflight
    /\ \/ /\ batches' = [batches EXCEPT ![b] = CancelRow(@)]
          /\ cancelReqs' = cancelReqs \cup {[batch |-> b, was |-> batches[b].status]}
          /\ Silent
          /\ UNCHANGED faults
       \/ /\ Fault
          /\ resp' = [op |-> "cancel", batch |-> b, ok |-> FALSE, was |-> batches[b].status, n |-> 0, id |-> NoId]
          /\ UNCHANGED <<batches, cancelReqs>>
    /\ UNCHANGED <<answered, events, fixedVars, batch_calls, calls, currentBatch, batchQueue, timers, loops,
                   startReqs, starts, invocations, handed, started, finished>>

\* q.indexOf(b), 1-based, 0 when absent
IndexOf(q, b) == IF \E i \in 1..Len(q) : q[i] = b
                 THEN CHOOSE i \in 1..Len(q) : q[i] = b /\ \A j \in 1..(i - 1) : q[j] # b
                 ELSE 0

\* q.splice(i) for the 1-based position i: everything from i on is removed
SpliceToEnd(q, i) == SubSeq(q, 1, i - 1)

\* q.splice(i, 1) for the 1-based position i
Splice(q, i) == [j \in 1..(Len(q) - 1) |-> IF j < i THEN q[j] ELSE q[j + 1]]

\* the answer of the cancel endpoint once its UPDATE has returned
CancelAnswer(was) == TRUE

\* POST /:batchId/cancel after its UPDATE: splice the queue, answer (the
\* history of the answers is kept by the specification that needs it)
CancelFinish(r) ==
    /\ r \in cancelReqs
    /\ cancelReqs' = cancelReqs \ {r}
    /\ batchQueue' = IF IndexOf(batchQueue, r.batch) > 0
                        THEN Splice(batchQueue, IndexOf(batchQueue, r.batch))
                        ELSE batchQueue
    /\ resp' = [op |-> "cancel", batch |-> r.batch, ok |-> CancelAnswer(r.was), was |-> r.was, n |-> 0, id |-> NoId]
    /\ UNCHANGED <<events, fixedVars, dbVars, currentBatch, timers, loops, startReqs, faults, starts,
                   invocations, handed, started, finished>>

\* the early return of processBatchQueue
QueueIdle == ~SlotFree \/ batchQueue = <<>>

\* a setTimeout(() => processBatchQueue(appState), 1000) callback runs
TimerFire ==
    /\ timers > 0
    /\ timers' = timers - 1
    /\ IF QueueIdle
         THEN UNCHANGED <<currentBatch, batchQueue, loops, started>>
         ELSE /\ currentBatch' = QueueFront(batchQueue)
              /\ batchQueue' = QueueRest(batchQueue)
              /\ loops' = loops \cup {NewLoop(QueueFront(batchQueue), "selectBatch")}
              /\ started' = Append(started, QueueFront(batchQueue))
    /\ Silent
    /\ UNCHANGED <<answered, events, fixedVars, dbVars, reqVars, faults, invocations, handed, finished>>

\* the finally block of processBatchQueue
FinallyRoutes(l, how) ==
    /\ finished' = Append(finished, <<l.batch, how>>)
    /\ currentBatch' = NoBatch
    /\ timers' = IF batchQueue # <<>> THEN timers + 1 ELSE timers
    /\ loops' = loops \ {l}

\* where the for loop of processBatchQueue goes once the calls in rest remain
NextCallQ(l, rest) ==
    [l EXCEPT !.todo = rest, !.err = NoError, !.conv = 0,
              !.pc = IF rest = <<>> THEN "markFinal" ELSE "sleepQ"]

ToCallCatchQ(l, msg) == [l EXCEPT !.pc = "callCatchQ", !.err = msg]

ToCatchQ(l, msg) == [l EXCEPT !.pc = "catchQ", !.err = msg]

\* SELECT * FROM batches WHERE id = batchId
SelectBatch(l) ==
    /\ l.pc = "selectBatch"
    /\ \/ /\ Step(l, IF Exists(l.batch) THEN [l EXCEPT !.pc = "selectCallsQ"]
                                         ELSE ToCatchQ(l, "Batch not found"))
          /\ UNCHANGED faults
       \/ /\ Fault
          /\ Step(l, ToCatchQ(l, StoreError))
    /\ Silent
    /\ UNCHANGED <<answered, events, fixedVars, dbVars, currentBatch, batchQueue, timers, reqVars,
                   invocations, handed, started, finished>>

\* SELECT the pending batch_calls of the batch
SelectCallsQ(l) ==
    /\ l.pc = "selectCallsQ"
    /\ \/ /\ \E rows \in SelectPending(l.batch) :
                Step(l, NextCallQ([l EXCEPT !.n = Len(rows)], rows))
          /\ UNCHANGED faults
       \/ /\ Fault
          /\ Step(l, ToCatchQ(l, StoreError))
    /\ Silent
    /\ UNCHANGED <<answered, events, fixedVars, dbVars, currentBatch, batchQueue, timers, reqVars,
                   invocations, handed, started, finished>>

\* await new Promise(resolve => setTimeout(resolve, 2000)) at the top of the try
SleepQ(l) ==
    /\ l.pc = "sleepQ"
    /\ Step(l, [AfterWait(l) EXCEPT !.pc = "initiateQ"])
    /\ Silent
    /\ UNCHANGED <<answered, events, fixedVars, dbVars, currentBatch, batchQueue, timers, reqVars, faults,
                   invocations, handed, started, finished>>

\* await initiateOutboundCall(formattedPhone, ...): returns or throws
InitiateQ(l) ==
    /\ l.pc = "initiateQ"
    /\ \/ /\ Step(l, [AfterInvoke(l) EXCEPT !.pc = "callInitiated",
                                            !.conv = Attempts(l.batch, Head(l.todo)) + 1])
          /\ invocations' = Append(invocations, <<l.batch, Head(l.todo), "ok">>)
       \/ /\ Step(l, ToCallCatchQ(AfterInvoke(l), RemoteError))
          /\ invocations' = Append(invocations, <<l.batch, Head(l.todo), "error">>)
    /\ Silent
    /\ UNCHANGED <<answered, events, fixedVars, dbVars, currentBatch, batchQueue, timers, reqVars, faults,
                   handed, started, finished>>

\* UPDATE batch_calls SET status = 'initiated', call_id = conversation id, error_message = NULL
CallInitiated(l) ==
    /\ l.pc = "callInitiated"
    /\ \/ /\ batch_calls' = [batch_calls EXCEPT ![l.batch][Head(l.todo)] =
                                [status |-> "initiated", call_id |-> ConvId(l),
                                 error_message |-> NoError]]
          /\ Step(l, [l EXCEPT !.pc = "insertCallQ"])
          /\ UNCHANGED faults
       \/ /\ Fault
          /\ Step(l, ToCallCatchQ(l, StoreError))
          /\ UNCHANGED batch_calls
    /\ Silent
    /\ UNCHANGED <<answered, events, fixedVars, batches, calls, currentBatch, batchQueue, timers, reqVars,
                   invocations, handed, started, finished>>

\* INSERT INTO calls; emit newCall; successfulCalls++
InsertCallQ(l) ==
    /\ l.pc = "insertCallQ"
    /\ \/ /\ calls' = calls \cup {CallRow(l)}
          /\ Step(l, [l EXCEPT !.pc = "progressQ", !.succ = @ + 1])
          /\ Emit(Event("newCall", l.batch, Head(l.todo), NoProgress))
          /\ UNCHANGED faults
       \/ /\ Fault
          /\ Step(l, ToCallCatchQ(l, StoreError))
          /\ UNCHANGED <<calls, events>>
    /\ Silent
    /\ UNCHANGED <<answered, fixedVars, batches, batch_calls, currentBatch, batchQueue, timers, reqVars,
                   invocations, handed, started, finished>>

\* per-call catch: UPDATE batch_calls SET status = 'failed', error_message; failedCalls++
CallCatchQ(l) ==
    /\ l.pc = "callCatchQ"
    /\ \/ /\ batch_calls' = [batch_calls EXCEPT ![l.batch][Head(l.todo)] =
                                [@ EXCEPT !.status = "failed", !.error_message = l.err]]
          /\ Step(l, [l EXCEPT !.pc = "progressQ", !.fail = @ + 1])
          /\ UNCHANGED faults
       \/ /\ Fault
          /\ Step(l, ToCatchQ(l, StoreError))
          /\ UNCHANGED batch_calls
    /\ Silent
    /\ UNCHANGED <<answered, events, fixedVars, batches, calls, currentBatch, batchQueue, timers, reqVars,
                   invocations, handed, started, finished>>

\* UPDATE batches SET completed_calls = $1, successful_calls = $2, failed_calls = $3
SetProgress(row, succ, fail) ==
    [row EXCEPT !.completed_calls = succ + fail, !.successful_calls = succ,
                !.failed_calls = fail]

\* the payload of the router's batchProgress event: completed, total
\* (batch.total_calls as read at the start), successful, failed
ProgressPayload(l) ==
    [status |-> "none", total_calls |-> batches[l.batch].total_calls,
     completed_calls |-> l.succ + l.fail, successful_calls |-> l.succ, failed_calls |-> l.fail]

\* "Update batch progress", emit batchProgress, next iteration
ProgressQ(l) ==
    /\ l.pc = "progressQ"
    /\ \/ /\ batches' = [batches EXCEPT ![l.batch] = SetProgress(@, l.succ, l.fail)]
          /\ Step(l, NextCallQ(l, Tail(l.todo)))
          /\ Emit(Event("batchProgress", l.batch, 0, ProgressPayload(l)))
          /\ UNCHANGED faults
       \/ /\ Fault
          /\ Step(l, ToCatchQ(l, StoreError))
          /\ UNCHANGED <<batches, events>>
    /\ Silent
    /\ UNCHANGED <<answered, fixedVars, batch_calls, calls, currentBatch, batchQueue, timers, reqVars,
                   invocations, handed, started, finished>>

\* const finalStatus = failedCalls === calls.length ? 'failed' :
\*                     successfulCalls === calls.length ? 'completed' : 'partial'
FinalStatusRoutes(succ, fail, n) ==
    IF fail = n THEN "failed" ELSE IF succ = n THEN "completed" ELSE "partial"

\* UPDATE batches SET status = finalStatus, completed_calls = calls.length, ...
SetFinal(row, succ, fail, n) ==
    [row EXCEPT !.status = FinalStatusRoutes(succ, fail, n), !.completed_calls = n,
                !.successful_calls = succ, !.failed_calls = fail]

\* the payload of the router's batchCompleted event: status, total
\* (calls.length), successful, failed
CompletedPayload(l) ==
    [status |-> FinalStatusRoutes(l.succ, l.fail, l.n), total_calls |-> l.n,
     successful_calls |-> l.succ, failed_calls |-> l.fail]

\* "Mark batch as completed", emit batchCompleted, finally
MarkFinal(l) ==
    /\ l.pc = "markFinal"
    /\ \/ /\ batches' = [batches EXCEPT ![l.batch] = SetFinal(@, l.succ, l.fail, l.n)]
          /\ FinallyRoutes(l, "completed")
          /\ Emit(Event("batchCompleted", l.batch, 0, CompletedPayload(l)))
          /\ UNCHANGED faults
       \/ /\ Fault
          /\ Step(l, ToCatchQ(l, StoreError))
          /\ UNCHANGED <<batches, currentBatch, timers, finished, events>>
    /\ Silent
    /\ UNCHANGED <<answered, fixedVars, batch_calls, calls, batchQueue, reqVars, invocations, handed,
                   started>>

\* outer catch: UPDATE batches SET status = 'failed', emit batchError; the
\* finally block runs whether or not the UPDATE throws
CatchQ(l) ==
    /\ l.pc = "catchQ"
    /\ \/ /\ batches' = [batches EXCEPT ![l.batch].status = "failed"]
          /\ FinallyRoutes(l, "aborted")
          /\ Emit(Event("batchError", l.batch, 0, NoProgress))
          /\ UNCHANGED faults
       \/ /\ Fault
          /\ FinallyRoutes(l, "rejected")
          /\ UNCHANGED <<batches, events>>
    /\ Silent
    /\ UNCHANGED <<answered, fixedVars, batch_calls, calls, batchQueue, reqVars, invocations, handed,
                   started>>

NextRoutes ==
    \/ \E b \in BatchIds, n \in ListSizes : Create(b, n)
    \/ \E b \in BatchIds : CancelUpdate(b)
    \/ \E r \in cancelReqs : CancelFinish(r) /\ UNCHANGED answered
    \/ TimerFire
    \/ \E l \in loops : SelectBatch(l)
    \/ \E l \in loops : SelectCallsQ(l)
    \/ \E l \in loops : SleepQ(l)
    \/ \E l \in loops : InitiateQ(l)
    \/ \E l \in loops : CallInitiated(l)
    \/ \E l \in loops : InsertCallQ(l)
    \/ \E l \in loops : CallCatchQ(l)
    \/ \E l \in loops : ProgressQ(l)
    \/ \E l \in loops : MarkFinal(l)
    \/ \E l \in loops : CatchQ(l)

Next == NextServer \/ NextRoutes

Spec == Init /\ [][Next]_vars

\* the submission and scheduling endpoints with contact lists up to the size
\* limit and beyond, before the dispatcher has taken a step of a batch
NextSubmit ==
    \/ \E b \in BatchIds, n \in SubmitSizes, k \in SubmitSizes : k <= n /\ Upload(b, n, k)
    \/ \E b \in BatchIds, n \in SubmitSizes : Create(b, n)
    \/ \E b \in BatchIds : StartRead(b)
    \/ \E b \in BatchIds : StartDecide(b)
    \/ TimerFire

SpecSubmit == Init /\ [][NextSubmit]_vars

\* the cancel request is answered and the answer is remembered
CancelAnswered(r) ==
    /\ CancelFinish(r)
    /\ answered' = IF CancelAnswer(r.was) THEN answered \cup {r.batch} ELSE answered

\* the store operations of the step succeed
NoFault == faults' = faults

\* the batch router with the history of its cancel answers, while the store
\* works
NextCancel ==
    \/ \E b \in BatchIds, n \in ListSizes : Create(b, n) /\ NoFault
    \/ \E b \in BatchIds : CancelUpdate(b) /\ NoFault
    \/ \E r \in cancelReqs : CancelAnswered(r)
    \/ TimerFire
    \/ \E l \in loops : SelectBatch(l) /\ NoFault
    \/ \E l \in loops : SelectCallsQ(l) /\ NoFault
    \/ \E l \in loops : SleepQ(l)
    \/ \E l \in loops : InitiateQ(l)
    \/ \E l \in loops : CallInitiated(l) /\ NoFault
    \/ \E l \in loops : InsertCallQ(l) /\ NoFault
    \/ \E l \in loops : CallCatchQ(l) /\ NoFault
    \/ \E l \in loops : ProgressQ(l) /\ NoFault
    \/ \E l \in loops : MarkFinal(l) /\ NoFault

SpecCancel == Init /\ [][NextCancel]_vars

\* ---------------------------------------------------------------------
\* the dispatchers under a fair scheduler
\* ---------------------------------------------------------------------

\* a continuation of processBatch runs: the operation it awaited has returned
StepServer ==
    \/ \E l \in loops : MarkProcessing(l)
    \/ \E l \in loops : SelectCalls(l)
    \/ \E l \in loops : CallProcessing(l)
    \/ \E l \in loops : Progress(l)
    \/ \E l \in loops : Initiate(l)
    \/ \E l \in loops : InsertCall(l)
    \/ \E l \in loops : CallCompleted(l)
    \/ \E l \in loops : IncSuccess(l)
    \/ \E l \in loops : Sleep(l)
    \/ \E l \in loops : CallCatch(l)
    \/ \E l \in loops : IncFailed(l)
    \/ \E l \in loops : MarkCompleted(l)
    \/ \E l \in loops : FinalProgress(l)
    \/ \E l \in loops : Catch(l)

\* a timer of the router fires or a continuation of processBatchQueue runs
StepRoutes ==
    \/ TimerFire
    \/ \E l \in loops : SelectBatch(l)
    \/ \E l \in loops : SelectCallsQ(l)
    \/ \E l \in loops : SleepQ(l)
    \/ \E l \in loops : InitiateQ(l)
    \/ \E l \in loops : CallInitiated(l)
    \/ \E l \in loops : InsertCallQ(l)
    \/ \E l \in loops : CallCatchQ(l)
    \/ \E l \in loops : ProgressQ(l)
    \/ \E l \in loops : MarkFinal(l)
    \/ \E l \in loops : CatchQ(l)

\* the requests that hand batches to the dispatchers
Submit ==
    \/ \E b \in BatchIds, n \in ListSizes, k \in ListSizes : k <= n /\ Upload(b, n, k)
    \/ \E b \in BatchIds : StartRead(b)
    \/ \E b \in BatchIds, n \in ListSizes : Create(b, n)

\* what the event loop runs once the awaited operation has returned
Resume == StepServer \/ StepRoutes \/ \E b \in BatchIds : StartDecide(b)

NextLive == Submit \/ Resume

\* every awaited operation returns and the event loop runs its continuation
SpecLive == Init /\ [][NextLive]_vars /\ WF_vars(Resume)

\* ---------------------------------------------------------------------
\* the call_ended webhook (unnamed/part_003, handleCallEnded)
\* ---------------------------------------------------------------------

\* the conversation id the provider gave to the j-th remote call-setup
ConvOf(j) ==
    <<"conv", invocations[j][1], invocations[j][2],
      Cardinality({k \in 1..j : /\ invocations[k][1] = invocations[j][1]
                                /\ invocations[k][2] = invocations[j][2]})>>

\* the identifiers a call_ended webhook may carry: the conversations the
\* provider set up, and the ids of the Call records
WebhookIds ==
    {ConvOf(j) : j \in {k \in DOMAIN invocations : invocations[k][3] = "ok"}} \cup
    {c.id : c \in calls}

\* an UPDATE of batch_calls without the status condition
EndedMatchesAnyStatus(row, conv) == row.call_id = conv

\* WHERE call_id = $2 AND status = 'initiated'
EndedMatches(row, conv) == row.call_id = conv /\ row.status = "initiated"

\* res.status(200).send('Webhook processed successfully'): handleCallEnded
\* catches its own errors
EndedAnswer(conv) ==
    [op |-> "call_ended", batch |-> NoBatch, ok |-> TRUE, was |-> "none", n |-> 0, id |-> conv]

\* handleCallEnded up to the end of UPDATE calls SET status = 'completed'
\* WHERE conversation_id = $3; an error is caught and logged
CallEndedCalls(conv) ==
    /\ ended < MaxEnded /\ Cardinality(endedReqs) < MaxInflight
    /\ ended' = ended + 1
    /\ \/ /\ calls' = {IF c.conversation_id = conv THEN [c EXCEPT !.status = "completed"] ELSE c :
                          c \in calls}
          /\ endedReqs' = endedReqs \cup {conv}
          /\ UNCHANGED faults
          /\ Silent
       \/ /\ Fault
          /\ resp' = EndedAnswer(conv)
          /\ UNCHANGED <<calls, endedReqs>>
    /\ UNCHANGED <<answered, events, sideVars, csvCheck, phoneCheck, variant, batches, batch_calls, currentBatch,
                   batchQueue, timers, loops, reqVars, invocations, handed, started, finished>>

\* handleCallEnded after UPDATE calls: UPDATE batch_calls SET status =
\* 'completed' WHERE call_id = $2 AND status = 'initiated'
CallEndedBatchCalls(conv) ==
    /\ conv \in endedReqs
    /\ endedReqs' = endedReqs \ {conv}
    /\ \/ /\ batch_calls' =
                [b \in BatchIds |->
                    [i \in 1..Len(batch_calls[b]) |->
                        IF EndedMatches(batch_calls[b][i], conv)
                        THEN [batch_calls[b][i] EXCEPT !.status = "completed"]
                        ELSE batch_calls[b][i]]]
          /\ UNCHANGED faults
       \/ /\ Fault
          /\ UNCHANGED batch_calls
    /\ resp' = EndedAnswer(conv)
    /\ UNCHANGED <<answered, events, sideVars, ended, csvCheck, phoneCheck, variant, batches, calls, currentBatch,
                   batchQueue, timers, loops, reqVars, invocations, handed, started, finished>>

\* the dispatchers, the submission and start endpoints and the webhook
NextHooks ==
    \/ NextServer
    \/ \E b \in BatchIds, n \in ListSizes : Create(b, n)
    \/ TimerFire
    \/ \E l \in loops : SelectBatch(l)
    \/ \E l \in loops : SelectCallsQ(l)
    \/ \E l \in loops : SleepQ(l)
    \/ \E l \in loops : InitiateQ(l)
    \/ \E l \in loops : CallInitiated(l)
    \/ \E l \in loops : InsertCallQ(l)
    \/ \E l \in loops : CallCatchQ(l)
    \/ \E l \in loops : ProgressQ(l)
    \/ \E l \in loops : MarkFinal(l)
    \/ \E l \in loops : CatchQ(l)
    \/ \E conv \in WebhookIds : CallEndedCalls(conv)
    \/ \E conv \in endedReqs : CallEndedBatchCalls(conv)

SpecHooks == Init /\ [][NextHooks]_vars

\* ---------------------------------------------------------------------
\* the post-call webhook of server.js (POST /webhook) and the call_started
\* webhook of the router (unnamed/part_003, handleCallStarted)
\* ---------------------------------------------------------------------

\* the conversations the provider has set up for the dispatcher
InitiatedIds == {ConvOf(j) : j \in {k \in DOMAIN invocations : invocations[k][3] = "ok"}}

\* a webhook in hand: its conversation, whether its payload has a caller
\* number, a duration or a transcript, and where its handler stands
Hook(conv, content, pc) == [conv |-> conv, content |-> content, pc |-> pc]

\* the handler of webhook h moves on to pc
HookStep(h, pc) == hooks' = (hooks \ {h}) \cup {Hook(h.conv, h.content, pc)}

\* a webhook arrives and its first SELECT returns: the handler goes on at pc;
\* when the SELECT fails the error is caught and the handler ends
HookArrives(conv, content, pc) ==
    /\ Cardinality(hooks) < MaxHooks
    /\ \/ /\ hooks' = hooks \cup {Hook(conv, content, pc)}
          /\ UNCHANGED faults
       \/ /\ Fault
          /\ hooks' = hooks \cup {Hook(conv, content, "done")}

\* what a step of a webhook handler leaves alone, but for calls, hooks, faults
hookFrame ==
    UNCHANGED <<answered, events, otherVars, hookVars, csvCheck, phoneCheck, variant, batches,
                batch_calls, currentBatch, batchQueue, timers, loops, reqVars, invocations, handed,
                started, finished>>

\* SELECT * FROM calls WHERE conversation_id = $1 AND call_type = 'outbound'
Outbound(conv) == {c \in calls : c.conversation_id = conv /\ c.call_type = "outbound"}

\* callData of POST /webhook: id is the conversation id, status 'completed',
\* call_type 'inbound'
WebhookRow(conv) ==
    [id |-> conv, conversation_id |-> conv, batch |-> NoBatch, idx |-> 0,
     status |-> "completed", call_type |-> "inbound"]

\* POST /webhook up to the end of its SELECT of the outbound call
WebhookSelect(conv, content) ==
    /\ variant = "server"
    /\ HookArrives(conv, content, IF Outbound(conv) # {} THEN "update" ELSE "lookup")
    /\ Silent
    /\ UNCHANGED calls
    /\ hookFrame

\* "Update existing outbound call": UPDATE calls SET ..., status = $3 WHERE
\* conversation_id = $1 AND call_type = 'outbound'
WebhookUpdate(h) ==
    /\ h.pc = "update"
    /\ \/ /\ calls' = {IF c \in Outbound(h.conv) THEN [c EXCEPT !.status = "completed"] ELSE c :
                          c \in calls}
          /\ UNCHANGED faults
       \/ /\ Fault
          /\ UNCHANGED calls
    /\ HookStep(h, "done")
    /\ Silent
    /\ hookFrame

\* "Handle inbound call": SELECT id FROM calls WHERE id = $1
WebhookLookup(h) ==
    /\ h.pc = "lookup"
    /\ \/ /\ HookStep(h, IF \E c \in calls : c.id = h.conv THEN "merge" ELSE "insert")
          /\ UNCHANGED faults
       \/ /\ Fault
          /\ HookStep(h, "done")
    /\ Silent
    /\ UNCHANGED calls
    /\ hookFrame

\* the UPDATE of the row with that id (status is not among its columns), or
\* the INSERT of callData when the payload has any content
WebhookStore(h) ==
    /\ h.pc \in {"merge", "insert"}
    /\ \/ /\ calls' = IF h.pc = "insert" /\ h.content
                        THEN calls \cup {WebhookRow(h.conv)}
                        ELSE calls
          /\ UNCHANGED faults
       \/ /\ Fault
          /\ UNCHANGED calls
    /\ HookStep(h, "done")
    /\ Silent
    /\ hookFrame

\* callData of handleCallStarted: id is call_id or a fresh inbound-... id,
\* status 'in-progress', call_type 'inbound'
StartedRow(conv) ==
    [id |-> <<"inbound", conv[2], conv[3], conv[4]>>, conversation_id |-> conv,
     batch |-> NoBatch, idx |-> 0, status |-> "in-progress", call_type |-> "inbound"]

\* handleCallStarted up to the end of SELECT id FROM calls WHERE
\* conversation_id = $1
StartedSelect(conv) ==
    /\ variant = "routes"
    /\ HookArrives(conv, TRUE, IF \E c \in calls : c.conversation_id = conv
                                    THEN "progress" ELSE "create")
    /\ Silent
    /\ UNCHANGED calls
    /\ hookFrame

\* handleCallStarted after its SELECT: INSERT INTO calls when no row was
\* found, else UPDATE calls SET status = 'in-progress' WHERE conversation_id = $2
StartedStore(h) ==
    /\ h.pc \in {"create", "progress"}
    /\ \/ /\ calls' = IF h.pc = "create"
                        THEN calls \cup {StartedRow(h.conv)}
                        ELSE {IF c.conversation_id = h.conv
                                THEN [c EXCEPT !.status = "in-progress"] ELSE c : c \in calls}
          /\ UNCHANGED faults
       \/ /\ Fault
          /\ UNCHANGED calls
    /\ HookStep(h, "done")
    /\ Silent
    /\ hookFrame

\* the dispatchers while the store works, and the webhooks of the
\* conversations they set up
NextCallbacks ==
    \/ Submit /\ NoFault
    \/ (\E b \in BatchIds : StartDecide(b))
    \/ StepServer /\ NoFault
    \/ StepRoutes /\ NoFault
    \/ \E conv \in InitiatedIds, content \in BOOLEAN : WebhookSelect(conv, content) /\ NoFault
    \/ \E h \in hooks : WebhookUpdate(h) /\ NoFault
    \/ \E h \in hooks : WebhookLookup(h) /\ NoFault
    \/ \E h \in hooks : WebhookStore(h) /\ NoFault
    \/ \E conv \in InitiatedIds : StartedSelect(conv) /\ NoFault
    \/ \E h \in hooks : StartedStore(h) /\ NoFault

SpecCallbacks == Init /\ [][NextCallbacks]_vars

\* ---------------------------------------------------------------------
\* the scrape queue of server.js
\* ---------------------------------------------------------------------

\* what neither the scrape queue nor the prompt endpoint writes
coreVars ==
    <<answered, events, hooks, hookVars, csvCheck, phoneCheck, variant, dbVars, currentBatch,
      batchQueue, timers, loops, reqVars, faults, invocations, resp, handed, started, finished>>

ScrapeIds == 1..MaxScrapes

\* a loop that lets one scrape more than the limit start
MayStartAtLimit(active) == active <= maxConcurrentScrapes

\* activeScrapes < scrapingConfig.maxConcurrentScrapes
MayStart(active) == active < maxConcurrentScrapes

\* the while loop of processScrapeQueue from queue q and counter active:
\* the queue and the counter it leaves and the requests it started, in order
RECURSIVE processScrapeQueue(_, _, _)
processScrapeQueue(q, active, begun) ==
    IF Len(q) > 0 /\ MayStart(active)
    THEN processScrapeQueue(Tail(q), active + 1, Append(begun, Head(q)))
    ELSE [queue |-> q, active |-> active, begun |-> begun]

\* the queue state after processScrapeQueue has returned r; u is then in
\* state st unless the loop started it
AfterProcess(r, u, st) ==
    /\ scrapingQueue' = r.queue
    /\ activeScrapes' = r.active
    /\ scrapeStarts' = scrapeStarts \o r.begun
    /\ scrapes' = [v \in ScrapeIds |->
                      IF \E i \in 1..Len(r.begun) : r.begun[i] = v THEN "running"
                      ELSE IF v = u THEN st ELSE scrapes[v]]

\* queueScrape(url): push the request, then processScrapeQueue()
queueScrape(u) ==
    /\ scrapes[u] = "none" /\ \A v \in 1..(u - 1) : scrapes[v] # "none"
    /\ AfterProcess(processScrapeQueue(Append(scrapingQueue, u), activeScrapes, <<>>), u, "queued")
    /\ UNCHANGED <<coreVars, promptVars>>

\* scrapeWebsite(url) settles: the then or the catch callback decrements
\* the counter, settles the request and calls processScrapeQueue()
ScrapeSettles(u, outcome) ==
    /\ scrapes[u] = "running"
    /\ AfterProcess(processScrapeQueue(scrapingQueue, activeScrapes - 1, <<>>), u, outcome)
    /\ UNCHANGED <<coreVars, promptVars>>

NextScrape ==
    \/ \E u \in ScrapeIds : queueScrape(u)
    \/ \E u \in ScrapeIds : ScrapeSettles(u, "resolved")
    \/ \E u \in ScrapeIds : ScrapeSettles(u, "rejected")

SpecScrape == Init /\ [][NextScrape]_vars

\* ---------------------------------------------------------------------
\* the prompt endpoint of server.js (POST /api/prompt)
\* ---------------------------------------------------------------------

\* the row a prompt update inserts: is_current = true
PromptRow(r) == [by |-> r, is_current |-> TRUE]

\* POST /api/prompt up to the end of UPDATE agent_prompts SET is_current =
\* false; when the UPDATE fails the request is answered with status 500
PromptClear(r) ==
    /\ prompted < MaxPrompts /\ r = prompted + 1
    /\ prompted' = r
    /\ \/ /\ agent_prompts' = [i \in 1..Len(agent_prompts) |->
                                  [agent_prompts[i] EXCEPT !.is_current = FALSE]]
          /\ promptReqs' = promptReqs \cup {r}
       \/ UNCHANGED <<agent_prompts, promptReqs>>
    /\ UNCHANGED <<coreVars, scrapeVars>>

\* POST /api/prompt after its UPDATE: INSERT INTO agent_prompts (...,
\* is_current) VALUES (..., true); when the INSERT fails the request is
\* answered with status 500
PromptInsert(r) ==
    /\ r \in promptReqs
    /\ promptReqs' = promptReqs \ {r}
    /\ \/ agent_prompts' = Append(agent_prompts, PromptRow(r))
       \/ UNCHANGED agent_prompts
    /\ UNCHANGED <<prompted, coreVars, scrapeVars>>

NextPrompt ==
    \/ \E r \in 1..MaxPrompts : PromptClear(r)
    \/ \E r \in promptReqs : PromptInsert(r)

SpecPrompt == Init /\ [][NextPrompt]_vars

\* ---------------------------------------------------------------------
\* phone normalization: strings are sequences of characters
\* ---------------------------------------------------------------------

\* the character class [\s\-\(\)\.] (a space stands for the white space)
FormattingChars == {" ", "-", "(", ")", "."}

\* the character class \d
Digits == {"0", "1", "2", "3", "4", "5", "6", "7", "8", "9"}

\* phoneNumber.replace(/[\s\-\(\)\.]/g, '')
cleanedPhone(phoneNumber) == SelectSeq(phoneNumber, LAMBDA c : c \notin FormattingChars)

\* str.startsWith(c) for a single character c
startsWith(str, c) == Len(str) > 0 /\ str[1] = c

\* the value a function returns, and the rejection of a request
Accepted(str) == [ok |-> TRUE, value |-> str]
Rejected(why) == [ok |-> FALSE, value |-> why]

\* formatPhoneNumber of the batch router: it returns a string for every input
formatPhoneNumber(phoneNumber) ==
    LET formattedPhone == cleanedPhone(phoneNumber)
    IN  IF ~startsWith(formattedPhone, "+")
        THEN IF Len(formattedPhone) = 10
             THEN Accepted(<<"+", "1">> \o formattedPhone)
             ELSE IF Len(formattedPhone) = 11 /\ startsWith(formattedPhone, "1")
                  THEN Accepted(<<"+">> \o formattedPhone)
                  ELSE Accepted(formattedPhone)
        ELSE Accepted(formattedPhone)

\* /^[\+]?[1-9][\d\s\-\(\)\.]{7,15}$/.test(str)
phoneRegex(str) ==
    LET rest == IF startsWith(str, "+") THEN Tail(str) ELSE str
    IN  /\ Len(rest) >= 1
        /\ rest[1] \in Digits \ {"0"}
        /\ Len(rest) - 1 >= 7 /\ Len(rest) - 1 <= 15
        /\ \A i \in 2..Len(rest) : rest[i] \in Digits \cup FormattingChars

\* the validation and formatting of POST /api/calls/initiate
initiateFormat(phoneNumber) ==
    LET formattedPhone == cleanedPhone(phoneNumber)
    IN  IF phoneNumber = <<>> THEN Rejected("Phone number is required")
        ELSE IF ~phoneRegex(formattedPhone) THEN Rejected("Invalid phone number format")
        ELSE IF ~startsWith(formattedPhone, "+")
             THEN IF Len(formattedPhone) = 10
                  THEN Accepted(<<"+", "1">> \o formattedPhone)
                  ELSE IF Len(formattedPhone) = 11 /\ startsWith(formattedPhone, "1")
                       THEN Accepted(<<"+">> \o formattedPhone)
                       ELSE Rejected("Please include country code")
             ELSE Accepted(formattedPhone)

\* the strings of the contract's examples
Example10 == <<"5", "5", "5", "1", "2", "3", "4", "5", "6", "7">>
Example11 == <<"1">> \o Example10
ExampleIntl == <<"+", "4", "4", " ", "2", "0", " ", "7", "9", "4", "6", " ", "0", "9", "5", "8">>
ExampleShort == <<"1", "2", "3">>

\* the phone numbers tried: the examples, and an optional "+", a first digit,
\* an optional formatting character and up to MaxDigits further digits
PhoneInputs ==
    {Example10, Example11, ExampleIntl, ExampleShort} \cup
    {plus \o <<first>> \o sep \o [i \in 1..n |-> "5"] :
        plus \in {<<>>, <<"+">>}, first \in {"0", "1", "5"},
        sep \in {<<>>} \cup {<<c>> : c \in FormattingChars}, n \in 0..MaxDigits}

\* processBatchQueue: formatPhoneNumber(call.phone_number) is what the router
\* passes to initiateOutboundCall
FormatBatch(phoneNumber) ==
    /\ phoneCheck' = [path |-> "batch", input |-> phoneNumber,
                      result |-> formatPhoneNumber(phoneNumber)]
    /\ UNCHANGED <<answered, events, sideVars, hookVars, csvCheck, variant, dbVars, currentBatch, batchQueue, timers, loops, reqVars,
                   faults, invocations, resp, handed, started, finished>>

\* POST /api/calls/initiate validates and normalizes its phone number
FormatSingle(phoneNumber) ==
    /\ phoneCheck' = [path |-> "single", input |-> phoneNumber,
                      result |-> initiateFormat(phoneNumber)]
    /\ UNCHANGED <<answered, events, sideVars, hookVars, csvCheck, variant, dbVars, currentBatch, batchQueue, timers, loops, reqVars,
                   faults, invocations, resp, handed, started, finished>>

\* processBatch of server.js: initiateOutboundCall(batchCall.phone_number),
\* the stored destination is passed as it is
PassStored(phoneNumber) ==
    /\ phoneCheck' = [path |-> "stored", input |-> phoneNumber, result |-> Accepted(phoneNumber)]
    /\ UNCHANGED <<answered, events, sideVars, hookVars, csvCheck, variant, dbVars, currentBatch, batchQueue, timers, loops, reqVars,
                   faults, invocations, resp, handed, started, finished>>

NextPhone ==
    \/ \E phoneNumber \in PhoneInputs : FormatBatch(phoneNumber)
    \/ \E phoneNumber \in PhoneInputs : FormatSingle(phoneNumber)
    \/ \E phoneNumber \in PhoneInputs : PassStored(phoneNumber)

SpecPhone == Init /\ [][NextPhone]_vars

\* ---------------------------------------------------------------------
\* CSV contact parsing: a text is a sequence of characters
\* ---------------------------------------------------------------------

\* the characters String.prototype.trim removes (those that occur in the texts tried)
WhiteSpace == {" ", "\n"}

UpperCase == <<"A", "B", "C", "D", "E", "F", "G", "H", "I", "J", "K", "L", "M",
               "N", "O", "P", "Q", "R", "S", "T", "U", "V", "W", "X", "Y", "Z">>
LowerCase == <<"a", "b", "c", "d", "e", "f", "g", "h", "i", "j", "k", "l", "m",
               "n", "o", "p", "q", "r", "s", "t", "u", "v", "w", "x", "y", "z">>

\* str.toLowerCase()
toLowerCase(str) ==
    [i \in 1..Len(str) |->
        IF \E k \in 1..26 : UpperCase[k] = str[i]
        THEN LowerCase[CHOOSE k \in 1..26 : UpperCase[k] = str[i]]
        ELSE str[i]]

\* str.trim()
trim(str) ==
    LET keep == {i \in 1..Len(str) : str[i] \notin WhiteSpace}
    IN  IF keep = {} THEN <<>>
        ELSE SubSeq(str, CHOOSE i \in keep : \A j \in keep : i <= j,
                         CHOOSE i \in keep : \A j \in keep : i >= j)

\* str.split(sep) for a single character sep
RECURSIVE split(_, _)
split(str, sep) ==
    IF \A i \in 1..Len(str) : str[i] # sep THEN <<str>>
    ELSE LET i == CHOOSE i \in 1..Len(str) : str[i] = sep /\ \A j \in 1..(i - 1) : str[j] # sep
         IN  <<SubSeq(str, 1, i - 1)>> \o split(SubSeq(str, i + 1, Len(str)), sep)

\* str.includes(sub)
includes(str, sub) ==
    \E i \in 1..(Len(str) - Len(sub) + 1) : SubSeq(str, i, i + Len(sub) - 1) = sub

\* str.replace(/['"]/g, '')
stripQuotes(str) == SelectSeq(str, LAMBDA c : c \notin {"'", "\""})

\* arr.findIndex(h => h.includes(sub)), 1-based, 0 when there is none
findIndex(arr, sub) ==
    IF \E i \in 1..Len(arr) : includes(arr[i], sub)
    THEN CHOOSE i \in 1..Len(arr) : includes(arr[i], sub) /\ \A j \in 1..(i - 1) : ~includes(arr[j], sub)
    ELSE 0

\* values[index] || ''
valueAt(cells, index) == IF index \in 1..Len(cells) THEN cells[index] ELSE <<>>

\* if (phoneNumber && phoneNumber.length >= 10)
longEnough(phoneNumber) == phoneNumber # <<>> /\ Len(phoneNumber) >= 10

WordPhone == <<"p", "h", "o", "n", "e">>
WordName == <<"n", "a", "m", "e">>
WordCompany == <<"c", "o", "m", "p", "a", "n", "y">>

\* const hasHeaders = firstLine.includes('phone') || ... of the contact parser
hasHeaders(firstLine) ==
    includes(firstLine, WordPhone) \/ includes(firstLine, WordName) \/ includes(firstLine, WordCompany)

\* the v.trim().replace(/['"]/g, '') applied to every cell
cleanCell(v) == stripQuotes(trim(v))

\* the h.trim().toLowerCase().replace(/['"]/g, '') applied to every header
cleanHeader(h) == stripQuotes(toLowerCase(trim(h)))

\* const headers = lines[0].split(',').map(h => ...)
headers(line) ==
    LET cells == split(line, ",") IN [i \in 1..Len(cells) |-> cleanHeader(cells[i])]

\* const values = line.split(',').map(v => ...)
values(line) ==
    LET cells == split(line, ",") IN [i \in 1..Len(cells) |-> cleanCell(cells[i])]

\* parseCSV of the contact upload (unnamed/part_006): the phone numbers of
\* the contacts it returns, in order
parseCSV(csvContent) ==
    LET lines == split(trim(csvContent), "\n")
        phoneIndex == findIndex(headers(lines[1]), WordPhone)
        candidates ==
            IF hasHeaders(toLowerCase(lines[1]))
            THEN [i \in 1..(Len(lines) - 1) |->
                    valueAt(values(lines[i + 1]), phoneIndex)]
            ELSE [i \in 1..Len(lines) |-> stripQuotes(trim(lines[i]))]
    IN  SelectSeq(candidates, longEnough)

\* parseCSV of server.js: the phone numbers it returns, in order
parseCSVNumbers(csvContent) ==
    LET lines == split(trim(csvContent), "\n")
        startIndex == IF includes(toLowerCase(lines[1]), WordPhone) THEN 1 ELSE 0
        candidates ==
            [i \in 1..(Len(lines) - startIndex) |->
                IF trim(lines[i + startIndex]) # <<>>
                THEN stripQuotes(trim(split(trim(lines[i + startIndex]), ",")[1]))
                ELSE <<>>]
    IN  SelectSeq(candidates, longEnough)

\* the cells tried
CellPhoneHeader == <<"P", "h", "o", "n", "e">>
CellTen == <<"5", "5", "5", "1", "2", "3", "4", "5", "6", "7">>
CellTenQuoted == <<"\"">> \o CellTen \o <<"\"">>
CellNineQuoted == <<"'", "5", "5", "5", "1", "2", "3", "4", "5", "6", "'">>
CellShort == <<"1", "2", "3">>
CsvCells == {CellPhoneHeader, WordName, WordCompany, CellTen, CellTenQuoted, CellNineQuoted, CellShort}

\* the lines tried: the empty line, one cell, two cells
CsvLines == {<<>>} \cup CsvCells \cup {a \o <<",">> \o b : a, b \in CsvCells}

\* lines.join('\n')
RECURSIVE joinLines(_)
joinLines(lines) ==
    IF Len(lines) = 0 THEN <<>>
    ELSE IF Len(lines) = 1 THEN lines[1]
    ELSE lines[1] \o <<"\n">> \o joinLines(Tail(lines))

\* a header row and the rows 5551234567,Alice and 123,Bob
CsvExample ==
    joinLines(<<CellPhoneHeader \o <<",">> \o WordName,
                CellTen \o <<",", "A", "l", "i", "c", "e">>,
                CellShort \o <<",", "B", "o", "b">>>>)

\* the CSV texts tried: up to MaxLines lines, and the example
CsvInputs ==
    {CsvExample} \cup
    UNION {{joinLines(ls) : ls \in [1..n -> CsvLines]} : n \in 1..MaxLines}

\* a CSV text arrives
InitCsv ==
    /\ InitDispatcher
    /\ \E text \in CsvInputs : csvCheck = [path |-> "text", input |-> text, result |-> <<>>]

csvFrame ==
    UNCHANGED <<answered, events, sideVars, hookVars, phoneCheck, variant, dbVars, currentBatch, batchQueue, timers, loops, reqVars,
                faults, invocations, resp, handed, started, finished>>

\* the contact upload parses the text
ParseContacts ==
    /\ csvCheck.path # "none"
    /\ csvCheck' = [csvCheck EXCEPT !.path = "contacts", !.result = parseCSV(csvCheck.input)]
    /\ csvFrame

\* POST /api/batch/upload of server.js parses the text
ParseNumbers ==
    /\ csvCheck.path # "none"
    /\ csvCheck' = [csvCheck EXCEPT !.path = "numbers", !.result = parseCSVNumbers(csvCheck.input)]
    /\ csvFrame

NextCsv == ParseContacts \/ ParseNumbers

SpecCsv == InitCsv /\ [][NextCsv]_vars

\* ---------------------------------------------------------------------
\* properties
\* ---------------------------------------------------------------------

Processing == {b \in BatchIds : batches[b].status = "processing"}

Range(q) == {q[i] : i \in DOMAIN q}

\* s can be obtained from t by deleting elements
RECURSIVE IsSubseq(_, _)
IsSubseq(s, t) ==
    IF s = <<>> THEN TRUE
    ELSE IF t = <<>> THEN FALSE
    ELSE IF Head(s) = Head(t) THEN IsSubseq(Tail(s), Tail(t))
    ELSE IsSubseq(s, Tail(t))

\* C1: in every reachable state at most one batch has status `processing`
\* and at most one per-batch processing loop is active.
C1_SingleActiveBatch ==
    /\ Cardinality(Processing) <= 1
    /\ Cardinality(loops) <= 1

\* a batch is being processed while another one waits in the queue
C1_Witness ==
    /\ Cardinality(loops) = 1
    /\ \E l \in loops : l.pc \in {"initiate", "initiateQ"} /\ l.batch = currentBatch
    /\ batchQueue # <<>>
    /\ \E i \in 1..Len(batchQueue) : batchQueue[i] # currentBatch

\* a batch handed over while a loop runs is appended to the queue
C2_Appended ==
    Len(handed') > Len(handed) /\ loops # {}
        => batchQueue' = Append(batchQueue, handed'[Len(handed')])

\* a loop starts only when every batch started before has a terminal status
C2_AfterTerminal ==
    Len(started') > Len(started)
        => \A i \in 1..Len(started) : batches'[started[i]].status \in Terminal

\* the batches started and the batches waiting, in that order, follow the
\* order of the hand-overs
C2_FifoOrder == IsSubseq(started \o batchQueue, handed)

\* C2: a batch submitted while another batch is being processed is appended
\* to the FIFO queue, its processing starts only after the batches started
\* before it have reached a terminal status, and waiting batches start in
\* the order of their submission.
C2_QueuedStartsInOrder ==
    [][C2_Appended /\ C2_AfterTerminal]_vars /\ []C2_FifoOrder

\* the step that ends a loop clears the slot and hands it to the front of
\* the queue (at once in server.js, through the timer armed in the finally
\* block in the router)
C3_Finish ==
    Len(finished') > Len(finished) =>
        IF batchQueue = <<>>
        THEN currentBatch' = NoBatch
        ELSE \/ /\ currentBatch' = Head(batchQueue)
                /\ batchQueue' = Tail(batchQueue)
                /\ \E l \in loops' : l.batch = Head(batchQueue)
             \/ /\ currentBatch' = NoBatch
                /\ timers' > 0

\* a timer that finds the slot empty takes the front of the queue
C3_TimerTakesFront ==
    timers' < timers /\ currentBatch = NoBatch /\ batchQueue # <<>>
        => /\ currentBatch' = Head(batchQueue)
           /\ batchQueue' = Tail(batchQueue)
           /\ \E l \in loops' : l.batch = Head(batchQueue)

\* C3: whenever the current batch finishes (all calls done, or a fatal
\* error) the current-batch slot is cleared and, if the queue is non-empty,
\* its front identifier is removed and becomes the current batch whose
\* processing starts; with an empty queue the slot stays empty.
C3_NextBatchOnFinish == [][C3_Finish /\ C3_TimerTakesFront]_vars

\* an occupied slot always has its loop running
C4_NotWedged ==
    currentBatch # NoBatch => \E l \in loops : l.batch = currentBatch

\* a loop that left through the outer catch leaves the batch `failed`
C4_AbortedIsFailed ==
    Len(finished') > Len(finished) /\ finished'[Len(finished')][2] # "completed"
        => batches'[finished'[Len(finished')][1]].status = "failed"

\* C4: a store failure outside the per-call handler (also while recording a
\* per-call failure or while marking the batch failed) ends the batch with
\* status `failed` and does not wedge the dispatcher: the slot is never left
\* occupied without a running loop.
C4_StoreFailureAbortsCleanly == []C4_NotWedged /\ [][C4_AbortedIsFailed]_vars

\* the UPDATE of a cancel request that found `pending` leaves `cancelled`
C5_SetsCancelled ==
    \A r \in cancelReqs' \ cancelReqs :
        r.was = "pending" => batches'[r.batch].status = "cancelled"

\* a cancel request that has answered has removed the batch from the queue
C5_LeavesQueue ==
    \A r \in cancelReqs \ cancelReqs' : r.batch \notin Range(batchQueue')

\* a cancelled batch that is not in the slot never enters it (the router
\* never writes the status `processing`: a batch is being processed when it
\* occupies the slot)
C5_NeverStarted ==
    \A b \in BatchIds :
        batches[b].status = "cancelled" /\ currentBatch # b
            => currentBatch' # b /\ batches'[b].status # "processing"

\* C5: a batch cancelled while its status is `pending` gets status
\* `cancelled`, is removed from the FIFO queue if present, and is never
\* transitioned to processing afterwards.
C5_CancelledNeverProcessed ==
    [][C5_SetsCancelled /\ C5_LeavesQueue /\ C5_NeverStarted]_vars

\* C6: the cancel endpoint answers success only when the stored status of
\* the batch was `pending` at the time of the request; for an unknown batch
\* or any other status it does not answer success.
C6_CancelSuccessOnlyWhenPending ==
    resp.op = "cancel" /\ resp.ok => resp.was = "pending"

\* C7: a batch that occupies the current-batch slot cannot be cancelled: no
\* step changes its stored status to `cancelled`.
C7_CurrentNotCancelled ==
    [][\A b \in BatchIds :
          currentBatch = b /\ batches[b].status # "cancelled"
              => batches'[b].status # "cancelled"]_vars

\* the step that completes the processing of a batch leaves its counters full
C8_Complete ==
    Len(finished') > Len(finished) /\ finished'[Len(finished')][2] = "completed"
        => LET row == batches'[finished'[Len(finished')][1]]
           IN  /\ row.completed_calls = row.successful_calls + row.failed_calls
               /\ row.completed_calls = row.total_calls

\* C8: for every batch, when its processing completes,
\* completed_calls = successful_calls + failed_calls = total_calls.
C8_CountersAtCompletion == [][C8_Complete]_vars

\* total_calls is fixed and no counter decreases
C9_Monotonic ==
    \A b \in BatchIds :
        Exists(b) =>
            /\ batches'[b].total_calls = batches[b].total_calls
            /\ batches'[b].completed_calls >= batches[b].completed_calls
            /\ batches'[b].successful_calls >= batches[b].successful_calls
            /\ batches'[b].failed_calls >= batches[b].failed_calls

\* in a terminal status the counters add up
C9_TerminalSum ==
    \A b \in BatchIds :
        batches[b].status \in Terminal =>
            batches[b].completed_calls = batches[b].successful_calls + batches[b].failed_calls

\* C9: for every batch total_calls never changes after creation, none of
\* completed_calls, successful_calls, failed_calls ever decreases, and
\* completed_calls = successful_calls + failed_calls whenever the status is
\* terminal, also for a batch aborted by a fatal error.
C9_CountersConsistent == [][C9_Monotonic]_vars /\ []C9_TerminalSum

\* a batch aborted by a fatal error after a counted call and before its last
C9_Witness ==
    \E i \in 1..Len(finished) :
        /\ finished[i][2] = "aborted"
        /\ batches[finished[i][1]].status = "failed"
        /\ batches[finished[i][1]].failed_calls >= 1
        /\ batches[finished[i][1]].completed_calls < batches[finished[i][1]].total_calls

CallHandlerPcs == {"callCatch", "incFailed", "callCatchQ", "progressQ"}

\* a loop that holds the error of the remote call is in the per-call handler
C10_InHandler == \A l \in loops : l.err = RemoteError => l.pc \in CallHandlerPcs

\* the handler records `failed` with the thrown message
C10_Recorded ==
    \A l \in loops :
        /\ l.err = RemoteError /\ l.pc \in {"callCatch", "callCatchQ"}
        /\ l \notin loops' /\ faults' = faults
        => /\ batch_calls'[l.batch][Head(l.todo)].status = "failed"
           /\ batch_calls'[l.batch][Head(l.todo)].error_message = RemoteError

\* the handler counts the failure once and the loop goes on with the next row
C10_Counted ==
    \A l \in loops :
        /\ l.err = RemoteError /\ l.pc \in {"incFailed", "progressQ"}
        /\ l \notin loops' /\ faults' = faults
        => /\ batches'[l.batch].completed_calls = batches[l.batch].completed_calls + 1
           /\ batches'[l.batch].failed_calls = batches[l.batch].failed_calls + 1
           /\ batches'[l.batch].successful_calls = batches[l.batch].successful_calls
           /\ \E l2 \in loops' :
                 /\ l2.batch = l.batch /\ l2.todo = Tail(l.todo)
                 /\ l2.pc \in (IF Tail(l.todo) = <<>>
                                 THEN {"markCompleted", "markFinal"}
                                 ELSE {"callProcessing", "sleepQ"})

\* C10: when the remote call-setup for a BatchCall fails, the BatchCall gets
\* status `failed` with error_message equal to the thrown message,
\* completed_calls and failed_calls each grow by exactly 1, and the loop goes
\* on to the next pending BatchCall: a failed call never aborts the batch.
C10_FailedCallDoesNotAbort == []C10_InHandler /\ [][C10_Recorded /\ C10_Counted]_vars

\* a call of a batch failed remotely and was recorded, and the loop has
\* invoked the remote call-setup for the next call of the same batch
C10_Witness ==
    \E b \in BatchIds : \E i, j \in 1..Len(batch_calls[b]) :
        /\ i # j
        /\ batch_calls[b][i].status = "failed"
        /\ batch_calls[b][i].error_message = RemoteError
        /\ batches[b].failed_calls >= 1
        /\ \E x, y \in 1..Len(invocations) :
              x < y /\ invocations[x] = <<b, i, "error">>
                    /\ invocations[y][1] = b /\ invocations[y][2] = j

\* the loops that leave their present step in this transition without a
\* store failure
Advancing(pcs) == {l \in loops : l.pc \in pcs /\ l \notin loops' /\ faults' = faults}

\* the INSERT after a successful remote invocation adds exactly one Call:
\* status `initiated`, call_type `outbound`, the conversation id of the result
C11_CallCreated ==
    \A l \in Advancing({"insertCall", "insertCallQ"}) :
        \E r \in calls' \ calls :
            /\ calls' = calls \cup {r}
            /\ r.status = "initiated" /\ r.call_type = "outbound"
            /\ r.conversation_id = ConvId(l)

\* when the success is counted the BatchCall is `completed` and carries the
\* identifier of that Call, and the two counters grow by one
C11_Marked ==
    \A l \in Advancing({"incSuccess", "progressQ"}) :
        l.err = NoError =>
            /\ batch_calls'[l.batch][Head(l.todo)].status = "completed"
            /\ \E r \in calls' :
                  /\ r.conversation_id = ConvId(l)
                  /\ r.id = batch_calls'[l.batch][Head(l.todo)].call_id
            /\ batches'[l.batch].completed_calls = batches[l.batch].completed_calls + 1
            /\ batches'[l.batch].successful_calls = batches[l.batch].successful_calls + 1
            /\ batches'[l.batch].failed_calls = batches[l.batch].failed_calls

\* C11: when the remote call-setup invocation for a BatchCall succeeds, a new
\* Call record is created (status `initiated`, call_type `outbound`, the
\* correlation identifier of the result), the BatchCall gets status
\* `completed` with that Call's identifier as its call identifier, and
\* completed_calls and successful_calls each grow by exactly 1.
C11_SuccessRecorded == [][C11_CallCreated /\ C11_Marked]_vars

\* every BatchCall of batch b has been created and has left `pending`
AllLeftPending(b) ==
    /\ Len(batch_calls[b]) = batches[b].total_calls
    /\ PendingIdx(b) = {}

\* the step that writes the status after the loop writes the status that the
\* counters of the row call for
C12_Computed ==
    \A l \in Advancing({"markCompleted", "markFinal"}) :
        AllLeftPending(l.batch) =>
            LET row == batches'[l.batch]
            IN  /\ row.status \in Terminal
                /\ row.failed_calls = row.total_calls => row.status = "failed"
                /\ row.failed_calls # row.total_calls /\ row.successful_calls = row.total_calls
                       => row.status = "completed"
                /\ row.failed_calls # row.total_calls /\ row.successful_calls # row.total_calls
                       => row.status \notin {"completed", "failed"}

\* C12: once every BatchCall of the current batch has left `pending`, the
\* terminal status of the batch is `failed` if failed_calls = total_calls,
\* `completed` if successful_calls = total_calls, and otherwise a
\* partial-success status that is neither `completed` nor `failed`.
C12_TerminalStatus == [][C12_Computed]_vars

\* the remote call-setup invocations for batch b, in order
InvocationsOf(b) == SelectSeq(invocations, LAMBDA x : x[1] = b)

\* the scenario: batch b has two contacts, its run has ended, no store
\* operation failed, the remote call succeeded for the first contact and
\* failed with "insufficient credits" for the second
C13_Scenario(b) ==
    /\ faults = 0
    /\ batches[b].total_calls = 2 /\ Len(batch_calls[b]) = 2
    /\ \E i \in 1..Len(finished) : finished[i][1] = b
    /\ \A l \in loops : l.batch # b
    /\ Len(InvocationsOf(b)) = 2
    /\ \E i \in 1..2 : InvocationsOf(b)[i] = <<b, 1, "ok">>
    /\ \E i \in 1..2 : InvocationsOf(b)[i] = <<b, 2, "error">>

C13_Final(b) ==
    /\ batches[b].status \in Terminal \ {"completed"}
    /\ batches[b].completed_calls = 2
    /\ batches[b].successful_calls = 1
    /\ batches[b].failed_calls = 1
    /\ batch_calls[b][1].status = "completed"
    /\ batch_calls[b][1].call_id # NoId
    /\ batch_calls[b][2].status = "failed"
    /\ batch_calls[b][2].error_message = RemoteError
    /\ Cardinality({r \in calls : r.batch = b}) = 1

\* C13: for a batch of two contacts where the remote call succeeds for the
\* first and fails with "insufficient credits" for the second, the final
\* state has a batch status that is not `completed`, total_calls = 2,
\* completed_calls = 2, successful_calls = 1, failed_calls = 1, the first
\* BatchCall `completed` with a call identifier, the second `failed` with
\* error_message "insufficient credits", and exactly one Call record.
C13_EndToEnd == \A b \in BatchIds : C13_Scenario(b) => C13_Final(b)

\* a submission of an empty list or of more than MaxBatchSize contacts has
\* been answered in this step
RejectedSize == resp'.op \in {"upload", "create"} /\ (resp'.n = 0 \/ resp'.n > MaxBatchSize)

\* C14: a batch submission whose contact list is empty or has more than the
\* maximum of 1000 entries is rejected synchronously and no batch is
\* created: no Batch record, no BatchCall record, and the queue and the
\* current-batch slot are unchanged.
C14_BadSizeRejected ==
    [][RejectedSize =>
          /\ ~resp'.ok
          /\ UNCHANGED <<batches, batch_calls, batchQueue, currentBatch>>]_vars

\* a submission has been answered in this step
Submitted == resp'.op \in {"upload", "create"}

\* C15: batch submission is all-or-nothing with respect to the store: when a
\* store write fails part-way, neither the Batch row nor any BatchCall row
\* remains persisted; otherwise the Batch row and all its BatchCall rows are
\* persisted.
C15_AllOrNothing ==
    [][Submitted =>
          IF resp'.ok
          THEN /\ batches[resp'.batch] = NoRow
               /\ batches'[resp'.batch].total_calls = resp'.n
               /\ Len(batch_calls'[resp'.batch]) = resp'.n
          ELSE UNCHANGED <<batches, batch_calls>>]_vars

\* C16: after an accepted submission of n contacts there is a new Batch with
\* a fresh identifier, status `pending`, total_calls = n and all counters 0,
\* exactly n BatchCalls owned by it, all `pending`, and the batch identifier
\* has been handed to the dispatcher: it is the current batch or is in the
\* queue.
C16_AcceptedSubmission ==
    [][Submitted /\ resp'.ok =>
          /\ batches[resp'.batch] = NoRow
          /\ batches'[resp'.batch] = NewBatchRow(resp'.n)
          /\ Len(batch_calls'[resp'.batch]) = resp'.n
          /\ \A i \in 1..resp'.n : batch_calls'[resp'.batch][i].status = "pending"
          /\ \/ currentBatch' = resp'.batch
             \/ resp'.batch \in Range(batchQueue')]_vars

\* C17: within one batch the remote call-setup invocations happen in the
\* creation order of the BatchCalls, i.e. in the order of the submitted
\* contact list, for every batch and every contact list.
C17_CreationOrder ==
    \A b \in BatchIds :
        \A x, y \in 1..Len(InvocationsOf(b)) :
            x < y => InvocationsOf(b)[x][2] <= InvocationsOf(b)[y][2]

\* the BatchCalls of batch b that are in flight
InFlight(b) == {i \in 1..Len(batch_calls[b]) : batch_calls[b][i].status = "processing"}

C18_OneInFlight == \A b \in BatchIds : Cardinality(InFlight(b)) <= 1

\* a BatchCall leaves `pending` only when every BatchCall of its batch that
\* left `pending` before has reached `completed` or `failed`
C18_PickedUpAfterPrevious ==
    \A b \in BatchIds : \A i \in 1..Len(batch_calls[b]) :
        batch_calls[b][i].status = "pending" /\ batch_calls'[b][i].status # "pending"
            => \A j \in 1..Len(batch_calls[b]) :
                   batch_calls[b][j].status \in {"pending", "completed", "failed"}

\* C18: BatchCalls of a batch leave `pending` strictly one at a time: in
\* every reachable state at most one BatchCall of a batch is in flight
\* (status `processing`), and the next BatchCall is not picked up before the
\* previous one has reached `completed` or `failed`.
C18_OneAtATime == []C18_OneInFlight /\ [][C18_PickedUpAfterPrevious]_vars

\* C19: a BatchCall is never re-processed after leaving `pending`: over any
\* sequence of submissions, repeated start requests, cancellations and batch
\* runs, the remote call-setup is invoked at most once for each BatchCall.
C19_InvokedAtMostOnce ==
    \A b \in BatchIds : \A i \in 1..Len(batch_calls[b]) : Attempts(b, i) <= 1

\* a batch was started twice: its first run was aborted after the remote
\* call-setup for its first BatchCall, its second run has completed and has
\* invoked the remote call-setup for the second BatchCall only
C19_Witness ==
    \E b \in BatchIds : \E x, y \in 1..Len(finished) :
        /\ x < y
        /\ finished[x] = <<b, "aborted">>
        /\ finished[y] = <<b, "completed">>
        /\ Len(InvocationsOf(b)) = 2
        /\ InvocationsOf(b)[1][2] = 1
        /\ InvocationsOf(b)[2][2] = 2

\* the outcome the contract gives for a phone number
C20_Expected(phoneNumber) ==
    LET stripped == SelectSeq(phoneNumber, LAMBDA c : c \notin {" ", "-", "(", ")", "."})
    IN  IF Len(stripped) > 0 /\ stripped[1] = "+" THEN <<"accepted", stripped>>
        ELSE IF Len(stripped) = 10 THEN <<"accepted", <<"+", "1">> \o stripped>>
        ELSE IF Len(stripped) = 11 /\ stripped[1] = "1" THEN <<"accepted", <<"+">> \o stripped>>
        ELSE <<"rejected", <<>>>>

\* the outcome the code gave
C20_Got ==
    IF phoneCheck.result.ok THEN <<"accepted", phoneCheck.result.value>>
    ELSE <<"rejected", <<>>>>

\* C20: phone normalization, for every input string: formatting characters
\* (spaces, dashes, parentheses, dots) are stripped; a result starting with
\* `+` is accepted unchanged; otherwise a 10-digit result gets prefix `+1`,
\* an 11-digit result starting with `1` gets prefix `+`, and any other length
\* is rejected as missing country code; "5551234567" and "15551234567" give
\* "+15551234567", "+44 20 7946 0958" gives "+442079460958", "123" is rejected.
C20_PhoneNormalization ==
    phoneCheck.path \in {"batch", "single"} => C20_Got = C20_Expected(phoneCheck.input)

\* C21: the batch path applies the same normalization as the single-call
\* path: the number passed to the Remote Call Initiator for a BatchCall is the
\* normalized form of its stored destination, and a destination that
\* normalization rejects (no leading `+` and neither 10 digits nor 11 digits
\* starting with `1`) is never passed to the Remote Call Initiator.
C21_BatchNormalizes ==
    phoneCheck.path \in {"batch", "stored"} =>
        IF C20_Expected(phoneCheck.input)[1] = "rejected"
        THEN ~phoneCheck.result.ok
        ELSE /\ phoneCheck.result.ok
             /\ phoneCheck.result.value = C20_Expected(phoneCheck.input)[2]

\* the lines of a CSV text and the columns of its first line
C22_Lines(text) == split(text, "\n")
C22_PhoneColumn(text) ==
    LET cells == split(C22_Lines(text)[1], ",")
    IN  findIndex([i \in 1..Len(cells) |-> toLowerCase(cells[i])], WordPhone)

\* the first line contains "phone", "name" or "company", case-insensitively
C22_HasHeader(text) ==
    \E word \in {WordPhone, WordName, WordCompany} : includes(toLowerCase(C22_Lines(text)[1]), word)

\* the texts the contract speaks about: the first line is not blank, and a
\* header row has a column whose header contains "phone"
C22_Defined(text) ==
    /\ C22_Lines(text)[1] # <<>>
    /\ C22_HasHeader(text) => C22_PhoneColumn(text) > 0

\* the candidates of a text: with a header row the cell of the phone column of
\* each later line, else each line
C22_Candidates(text) ==
    IF C22_HasHeader(text)
    THEN [i \in 1..(Len(C22_Lines(text)) - 1) |->
            valueAt(split(C22_Lines(text)[i + 1], ","), C22_PhoneColumn(text))]
    ELSE C22_Lines(text)

\* the candidates of at least 10 characters after stripping quotes, in order
C22_Expected(text) ==
    SelectSeq([i \in 1..Len(C22_Candidates(text)) |-> stripQuotes(C22_Candidates(text)[i])],
              LAMBDA c : Len(c) >= 10)

\* C22: CSV contact parsing: the first line is a header row iff it contains
\* "phone", "name" or "company" (case-insensitive); with headers the phone
\* value of each later line is read from the column whose header contains
\* "phone", without headers each non-empty line is a bare phone number; the
\* output contains, in input order, exactly the candidates that are at least
\* 10 characters long after stripping quote characters (a header row plus the
\* rows 5551234567,Alice and 123,Bob yields exactly one contact).
C22_CsvParsing ==
    (csvCheck.path \in {"contacts", "numbers"} /\ C22_Defined(csvCheck.input)) =>
        /\ csvCheck.result = C22_Expected(csvCheck.input)
        /\ csvCheck.input = CsvExample => csvCheck.result = <<CellTen>>

\* the steps that build a progress snapshot and broadcast it
BroadcastPcs == {"progress", "finalProgress"}

\* a loop takes a broadcasting step and the step fails
BroadcastFailed(l) == l.pc \in BroadcastPcs /\ l \notin loops' /\ faults' = faults + 1

\* the failed broadcast of a call's progress event is swallowed: the loop goes
\* on to invoke the Remote Call Initiator for the same BatchCall
C23_CallGoesOn ==
    \A l \in loops : (BroadcastFailed(l) /\ l.pc = "progress") =>
        \E l2 \in loops' : l2.batch = l.batch /\ l2.todo = l.todo /\ l2.pc = "initiate"

\* the failed broadcast of the completion event is swallowed: the run ends as
\* completed and the Batch record keeps the outcome it had
C23_BatchOutcomeKept ==
    \A l \in loops : (BroadcastFailed(l) /\ l.pc = "finalProgress") =>
        /\ finished' = Append(finished, <<l.batch, "completed">>)
        /\ batches' = batches

\* C23: a failure while broadcasting an event (including a failure while
\* building the event's progress snapshot) never propagates: it does not
\* change the outcome recorded for the BatchCall or the Batch, and the Remote
\* Call Initiator is still invoked for that BatchCall.
C23_BroadcastFailureSwallowed == [][C23_CallGoesOn /\ C23_BatchOutcomeKept]_vars

\* C24: there is no automatic retry: once a BatchCall has status `failed`,
\* its status never changes again in any later state (whatever batches run,
\* start requests arrive or webhooks are received).
C24_FailedIsFinal ==
    [][\A b \in BatchIds : \A i \in 1..Len(batch_calls[b]) :
          batch_calls[b][i].status = "failed" => batch_calls'[b][i].status = "failed"]_vars

\* a call_ended webhook carrying the call_id of a failed BatchCall has been
\* processed, and the BatchCall is still failed
C24_Witness ==
    /\ resp.op = "call_ended"
    /\ endedReqs = {}
    /\ \E b \in BatchIds : \E i \in 1..Len(batch_calls[b]) :
          /\ batch_calls[b][i].status = "failed"
          /\ batch_calls[b][i].call_id = resp.id

\* the steps that invoke the remote call-setup
InitiatePcs == {"initiate", "initiateQ"}

\* C25: between any two consecutive remote call-setup invocations of the same
\* batch a fixed-delay wait step occurs, whether the earlier call succeeded or
\* failed: no loop is about to invoke the remote call-setup without a wait
\* since its previous invocation.
C25_WaitBetweenCalls ==
    \A l \in loops : l.pc \in InitiatePcs => l.gap # "none"

\* a progress event naming the destination of row i of batch b was broadcast
Announced(b, i) ==
    \E k \in DOMAIN events :
        events[k].type = "batchProgress" /\ events[k].batch = b /\ events[k].row = i

\* the progress event of a BatchCall is broadcast once `processing` is stored
C26_AnnouncedAfterMarked ==
    \A b \in BatchIds : \A i \in 1..Len(batch_calls[b]) :
        (~Announced(b, i) /\ Announced(b, i)') => batch_calls[b][i].status = "processing"

\* the remote call-setup is invoked for a BatchCall once `processing` is
\* stored and its progress event was broadcast
C26_InvokedAfterAnnounced ==
    \A b \in BatchIds : \A i \in 1..Len(batch_calls[b]) :
        Attempts(b, i)' > Attempts(b, i) =>
            batch_calls[b][i].status = "processing" /\ Announced(b, i)

\* C26: for every BatchCall, the order of steps is: its status is persisted
\* as `processing`, then a progress event naming its destination is
\* broadcast, and only then is the Remote Call Initiator invoked for it.
C26_StepOrder == [][C26_AnnouncedAfterMarked /\ C26_InvokedAfterAnnounced]_vars

\* the batch-completed events broadcast for batch b
CompletedEvents(b) ==
    {k \in DOMAIN events : events[k].type = "batchCompleted" /\ events[k].batch = b}

\* loop l, all its calls processed, leaves the step that follows the storing
\* of the terminal status
Completing(l) ==
    /\ l \notin loops'
    /\ \/ l.pc = "finalProgress"
       \/ l.pc = "markFinal" /\ faults' = faults

\* the step broadcasts e
Broadcasts(e) == events' = Append(events, e)

\* a batch-completed event is broadcast once the terminal status is stored
C27_EventOnCompletion ==
    \A l \in loops : Completing(l) =>
        \E e \in Range(events') : Broadcasts(e) /\ e.type = "batchCompleted" /\ e.batch = l.batch

\* the event comes after the terminal status and carries the stored status
\* and counters
C27_Snapshot ==
    \A e \in Range(events') : (Broadcasts(e) /\ e.type = "batchCompleted") =>
        /\ batches'[e.batch].status \in Terminal
        /\ e.progress.status = batches'[e.batch].status
        /\ e.progress.total_calls = batches'[e.batch].total_calls
        /\ e.progress.successful_calls = batches'[e.batch].successful_calls
        /\ e.progress.failed_calls = batches'[e.batch].failed_calls

\* there is at most one batch-completed event per batch
C27_AtMostOne == \A b \in BatchIds : Cardinality(CompletedEvents(b)) <= 1

\* C27: for every batch whose calls have all been processed, exactly one
\* batch-completed event is broadcast, after the terminal status has been
\* persisted, and its progress snapshot carries the final status and final
\* counters of that batch.
C27_CompletionEvent ==
    []C27_AtMostOne /\ [][C27_EventOnCompletion /\ C27_Snapshot]_vars

\* the step is a step of a cancel request for batch b
CancelStepOf(b) ==
    \/ resp'.op = "cancel" /\ resp'.batch = b
    \/ \E r \in cancelReqs' \ cancelReqs : r.batch = b

\* the queue without the identifier b
Without(q, b) == SelectSeq(q, LAMBDA x : x # b)

C29_NoCallAfterCancel ==
    [][\A b \in answered : InvocationsOf(b)' = InvocationsOf(b)]_vars

\* C30: a terminal batch status is stable: once the stored status of a batch
\* is completed, failed, cancelled or partial, no start request, cancel
\* request or dispatcher step changes it.
C30_TerminalStable ==
    [][\A b \in BatchIds :
          batches[b].status \in Terminal
              => batches'[b].status = batches[b].status]_vars

\* C31: in every reachable state the queue holds no identifier twice and does
\* not hold the identifier in the current-batch slot, whatever the
\* interleaving of start requests (repeated ones included) with processing.
C31_QueueDistinct ==
    /\ \A i, j \in 1..Len(batchQueue) : batchQueue[i] = batchQueue[j] => i = j
    /\ currentBatch \notin Range(batchQueue)

\* every batch handed to the dispatcher whose stored status is still pending
\* is in the queue or in the current-batch slot
C32_PendingIsHeld ==
    \A i \in 1..Len(handed) :
        batches[handed[i]].status = "pending"
            => handed[i] \in Range(batchQueue) \/ currentBatch = handed[i]

\* whenever the queue is non-empty and the slot is empty, a timer that will
\* take the queue head is armed
C32_DispatchPending == (batchQueue # <<>> /\ SlotFree) => timers > 0

\* C32: no accepted batch is lost by the dispatcher: every batch handed to it
\* whose stored status is still pending is in the queue or in the
\* current-batch slot, and whenever the queue is non-empty and the slot is
\* empty a dispatch step is pending.
C32_NoBatchLost == C32_PendingIsHeld /\ C32_DispatchPending

\* the Call records the dispatcher created for BatchCall i of batch b
CallsFor(b, i) == {c \in calls : c.batch = b /\ c.idx = i}

\* a BatchCall that has left processing has a Call record exactly when its
\* status is completed
C33_CallIffCompleted ==
    \A b \in BatchIds : \A i \in 1..Len(batch_calls[b]) :
        batch_calls[b][i].status \notin {"pending", "processing"}
            => (CallsFor(b, i) # {} <=> batch_calls[b][i].status = "completed")

\* once a batch is terminal and no longer worked on, the number of its Call
\* records is its successful_calls
C33_CallsCounted ==
    \A b \in BatchIds :
        (batches[b].status \in Terminal /\ \A l \in loops : l.batch # b)
            => Cardinality({c \in calls : c.batch = b}) = batches[b].successful_calls

\* C33: for every BatchCall that has left processing, a Call record created
\* by the dispatcher exists for it if and only if its status is completed, so
\* a BatchCall is failed only when no call was placed for it, and the number
\* of Call records of a batch equals its successful_calls, also when store
\* writes fail between the remote call and the bookkeeping updates.
C33_CallRecordsMatch == C33_CallIffCompleted /\ C33_CallsCounted

\* the start request whose SELECT has just returned is for batch b
C34_StartReadOf(b) ==
    /\ starts' = starts + 1
    /\ faults' = faults
    /\ b \in startReqs' \ startReqs \/ (resp'.op = "start" /\ resp'.batch = b)

\* C34: a start request for a batch that does not exist or whose stored
\* status is not pending is rejected with an error and leaves the
\* current-batch slot, the queue and all Batch records unchanged.
C34_BadStartRejected ==
    [][\A b \in BatchIds :
          (C34_StartReadOf(b) /\ (batches[b].status = "none" \/ batches[b].status # "pending"))
              => /\ resp'.op = "start" /\ resp'.batch = b /\ ~resp'.ok
                 /\ startReqs' = startReqs /\ loops' = loops
                 /\ currentBatch' = currentBatch
                 /\ batchQueue' = batchQueue
                 /\ batches' = batches]_vars

\* a start request for the batch being processed has been rejected while
\* that batch holds the slot
C34_Witness ==
    /\ resp.op = "start" /\ ~resp.ok
    /\ resp.was = "processing"
    /\ currentBatch = resp.batch

\* every batch handed to a dispatcher eventually has a terminal status
C35_Terminates ==
    \A b \in BatchIds : (b \in Range(handed)) ~> (batches[b].status \in Terminal)

\* the queue and the current-batch slot end up empty for good
C35_Drains == <>[](batchQueue = <<>> /\ SlotFree)

\* C35: when every remote call-setup and every store operation returns and
\* the scheduler is fair, every batch handed to the dispatcher and not
\* cancelled eventually reaches a terminal status, and once no more batches
\* are submitted the queue and the current-batch slot eventually become empty.
C35_EventuallyDone == C35_Terminates /\ C35_Drains

\* C36: for each conversation identifier there is at most one Call record:
\* the webhook of a conversation the dispatcher initiated updates the
\* existing outbound Call record and creates no second one, under every
\* interleaving of the webhook with the dispatcher's insertion of the record.
C36_OneCallPerConversation ==
    \A c \in calls : \A d \in calls : c.conversation_id = d.conversation_id => c = d

\* the scrape requests queued so far, in the order of their queueScrape calls
C37_Queued == SelectSeq([u \in ScrapeIds |-> u], LAMBDA u : scrapes[u] # "none")

\* C37: in the scrape queue, under any interleaving of queueScrape calls and
\* scrape completions, the number of active scrapes is never negative and
\* never exceeds maxConcurrentScrapes (3), and every queued scrape request is
\* started exactly once, in FIFO order.
C37_ScrapeQueue ==
    /\ activeScrapes >= 0 /\ activeScrapes <= maxConcurrentScrapes
    /\ activeScrapes = Cardinality({u \in ScrapeIds : scrapes[u] = "running"})
    /\ scrapeStarts \o scrapingQueue = C37_Queued
    /\ scrapingQueue # <<>> => activeScrapes = maxConcurrentScrapes

\* a request waits while three scrapes run, after an earlier one has settled
C37_Witness ==
    /\ scrapingQueue # <<>>
    /\ activeScrapes = maxConcurrentScrapes
    /\ \E u \in ScrapeIds : scrapes[u] \in {"resolved", "rejected"}

\* C38: after any interleaving of prompt-update requests, at most one
\* agent_prompts row has is_current = true, and it is the row inserted by
\* the request whose insert happened last.
C38_OneCurrentPrompt ==
    promptReqs = {} =>
        \A i \in 1..Len(agent_prompts) :
            agent_prompts[i].is_current => i = Len(agent_prompts)

====
